---- MODULE Spec2Model ----
(***************************************************************************)
(* Verification model of the claude-mux synchronisation core:              *)
(*   - ReliableWebSocket  (web/src/lib/stores/websocket-base.svelte.ts)    *)
(*   - SessionWatcher     (polling change watcher)                         *)
(*   - TerminalStore      (web/src/lib/stores/terminal.svelte.ts)          *)
(*   - the session store and the project tree the main page derives from   *)
(*     it                                                                  *)
(* Each object is one record-valued variable whose fields carry the names  *)
(* of the source fields; the browser / filesystem objects the code talks   *)
(* to (sockets, timers, listeners, directory) are further fields of the    *)
(* same record.  Handlers are operators from record to record, composed in *)
(* the order the code calls them; one action is one whole handler.         *)
(***************************************************************************)
EXTENDS Integers, Sequences, FiniteSets, TLC

VARIABLES channel, watcher, terminal, store

vars == <<channel, watcher, terminal, store>>

(***************************************************************************)
(* Bounds of the model                                                     *)
(***************************************************************************)
MaxSockets == 2        \* WebSocket objects of one channel not yet closed
MaxAttempts == 6       \* cap on reconnectAttempts (covers attempts 0..5)
MaxHandled == 2        \* frames delivered to handleMessage that are recorded
MaxMtime == 2          \* distinct modification times of a session file
MaxSubscriptions == 2  \* unsubscribe functions not yet invoked, per callback
MaxResizes == 2        \* resize frames written to the stream that are recorded
MaxSessions == 2       \* sessions of a pushed snapshot

Min(a, b) == IF a < b THEN a ELSE b

RECURSIVE Pow2(_)
Pow2(n) == IF n = 0 THEN 1 ELSE 2 * Pow2(n - 1)

(***************************************************************************)
(* ReliableWebSocket                                                       *)
(***************************************************************************)
pingInterval == 30000
pongTimeout == 10000
baseReconnectDelay == 1000
maxReconnectDelay == 30000

\* Milliseconds per clock step: the clock is read at the granularity of the
\* keep-alive interval.
ClockStep == pingInterval

\* The age of the last pong is only ever compared with pingInterval +
\* pongTimeout: it is counted up to the first value beyond that threshold.
MaxAge == (pingInterval + pongTimeout) \div ClockStep + 1

\* Math.random() * 1000 lies in [0, 1000); the two extremes, as integers.
Jitters == {0, 999}

\* event.data of an inbound frame: the liveness ack or a payload
Frames == {"pong", "a", "b"}

Slots == 1..MaxSockets

\* History fields of the channel record (not fields of the class):
\*   live      the owner has connected and not disconnected since
\*   handled   the frames passed to handleMessage, in order
\* A WebSocket object: its readyState, which of the four handler properties
\* the channel has left assigned, whether the handshake ever completed, and
\* whether a 'ping' written to it is still unanswered.
FreeSocket == [readyState |-> "FREE", onopen |-> FALSE, onmessage |-> FALSE,
               onclose |-> FALSE, onerror |-> FALSE, established |-> FALSE,
               pinged |-> FALSE]

NewSocket == [readyState |-> "CONNECTING", onopen |-> TRUE, onmessage |-> TRUE,
              onclose |-> TRUE, onerror |-> TRUE, established |-> FALSE,
              pinged |-> FALSE]

ChannelInit0 ==
    [connected |-> FALSE, ws |-> 0, pingTimer |-> FALSE, reconnectTimer |-> FALSE,
     pongAge |-> 0, reconnectAttempts |-> 0, visibilityHandler |-> FALSE,
     sockets |-> [s \in Slots |-> FreeSocket],
     timeouts |-> <<>>, intervals |-> 0, listeners |-> 0,
     eligible |-> TRUE,
     live |-> FALSE, handled |-> <<>>]

HasFreeSlot(w) == \E s \in Slots : w.sockets[s].readyState = "FREE"
FreeSlot(w) == CHOOSE s \in Slots : w.sockets[s].readyState = "FREE"

\* WebSocket.close(): starts the closing handshake unless already closing/closed
SocketClose(w, s) ==
    IF w.sockets[s].readyState \in {"CONNECTING", "OPEN"}
    THEN [w EXCEPT !.sockets[s].readyState = "CLOSING"]
    ELSE w

\* WebSocket.send('ping') on an open socket
SendPing(w, s) == [w EXCEPT !.sockets[s].pinged = TRUE]

\* clearTimeout(this.reconnectTimer): the handle names the timer created last
ClearTimeout(w) ==
    IF Len(w.timeouts) > 0
    THEN [w EXCEPT !.timeouts = SubSeq(@, 1, Len(@) - 1)]
    ELSE w

shouldReconnect(w) == w.eligible

stopPingTimer(w) ==
    IF w.pingTimer
    THEN [w EXCEPT !.pingTimer = FALSE, !.intervals = IF @ > 0 THEN @ - 1 ELSE 0]
    ELSE w

startPingTimer(w) ==
    LET w1 == stopPingTimer(w)
    IN  [w1 EXCEPT !.pingTimer = TRUE, !.intervals = @ + 1]

setupVisibilityHandler(w) ==
    IF w.visibilityHandler THEN w
    ELSE [w EXCEPT !.visibilityHandler = TRUE, !.listeners = @ + 1]

removeVisibilityHandler(w) ==
    IF w.visibilityHandler
    THEN [w EXCEPT !.visibilityHandler = FALSE, !.listeners = IF @ > 0 THEN @ - 1 ELSE 0]
    ELSE w

\* variant: the sum is not clamped to maxReconnectDelay
ReconnectDelay_unclamped(n, jitter) ==
    baseReconnectDelay * Pow2(n) + jitter

\* the Math.min(base * 2^attempts + jitter, max) of scheduleReconnect
ReconnectDelay(n, jitter) ==
    Min(baseReconnectDelay * Pow2(n) + jitter, maxReconnectDelay)

\* variant: no early return while a timer is pending
scheduleReconnect_unguarded(w, jitter) ==
    [w EXCEPT !.reconnectAttempts = @ + 1,
              !.reconnectTimer = TRUE,
              !.timeouts = Append(@, [delay |-> ReconnectDelay(w.reconnectAttempts, jitter),
                                      attempt |-> w.reconnectAttempts,
                                      jitter |-> jitter])]

scheduleReconnect(w, jitter) ==
    IF w.reconnectTimer THEN w
    ELSE [w EXCEPT !.reconnectAttempts = @ + 1,
                   !.reconnectTimer = TRUE,
                   !.timeouts = Append(@, [delay |-> ReconnectDelay(w.reconnectAttempts, jitter),
                                           attempt |-> w.reconnectAttempts,
                                           jitter |-> jitter])]

\* variant: no early return while a socket is held
doConnect_unguarded(w) ==
    IF ~HasFreeSlot(w) THEN w
    ELSE LET s == FreeSlot(w)
         IN  [w EXCEPT !.ws = s, !.sockets[s] = NewSocket]

doConnect(w) ==
    IF w.ws # 0 THEN w
    ELSE LET s == FreeSlot(w)
         IN  [w EXCEPT !.ws = s, !.sockets[s] = NewSocket]

\* variant: the open handler leaves a pending reconnect timer alone
onopen_keepsTimer(w) ==
    LET w1 == [w EXCEPT !.connected = TRUE, !.reconnectAttempts = 0, !.pongAge = 0]
    IN  setupVisibilityHandler(startPingTimer(w1))

\* variant: the open handler leaves reconnectAttempts alone
onopen_noReset(w) ==
    LET w1 == [w EXCEPT !.connected = TRUE, !.pongAge = 0]
        w2 == IF w1.reconnectTimer
              THEN [ClearTimeout(w1) EXCEPT !.reconnectTimer = FALSE]
              ELSE w1
    IN  setupVisibilityHandler(startPingTimer(w2))

onopen(w) ==
    LET w1 == [w EXCEPT !.connected = TRUE, !.reconnectAttempts = 0, !.pongAge = 0]
        w2 == IF w1.reconnectTimer
              THEN [ClearTimeout(w1) EXCEPT !.reconnectTimer = FALSE]
              ELSE w1
    IN  setupVisibilityHandler(startPingTimer(w2))

\* variant: the liveness ack is not filtered
onmessage_noFilter(w, data) ==
    IF data = "pong"
    THEN [w EXCEPT !.pongAge = 0, !.handled = Append(@, data)]
    ELSE [w EXCEPT !.handled = Append(@, data)]

onmessage(w, data) ==
    IF data = "pong"
    THEN [w EXCEPT !.pongAge = 0]
    ELSE [w EXCEPT !.handled = Append(@, data)]

onclose(w, jitter) ==
    LET w1 == stopPingTimer([w EXCEPT !.connected = FALSE, !.ws = 0])
    IN  IF shouldReconnect(w1) THEN scheduleReconnect(w1, jitter) ELSE w1

onerror(w) == IF w.ws # 0 THEN SocketClose(w, w.ws) ELSE w

\* variant: the pending reconnect timer is not cancelled
doDisconnect_keepsTimer(w) ==
    LET w2 == removeVisibilityHandler(stopPingTimer(w))
        w3 == [w2 EXCEPT !.connected = FALSE, !.reconnectAttempts = 0]
    IN  IF w3.ws # 0
        THEN LET s == w3.ws
                 w4 == [w3 EXCEPT !.sockets[s].onopen = FALSE,
                                  !.sockets[s].onclose = FALSE,
                                  !.sockets[s].onerror = FALSE,
                                  !.sockets[s].onmessage = FALSE]
                 w5 == IF w4.sockets[s].readyState # "CLOSED" THEN SocketClose(w4, s) ELSE w4
             IN  [w5 EXCEPT !.ws = 0]
        ELSE w3

\* variant: the visibility listener stays registered
doDisconnect_keepsListener(w) ==
    LET w1 == IF w.reconnectTimer
              THEN [ClearTimeout(w) EXCEPT !.reconnectTimer = FALSE]
              ELSE w
        w2 == stopPingTimer(w1)
        w3 == [w2 EXCEPT !.connected = FALSE, !.reconnectAttempts = 0]
    IN  IF w3.ws # 0
        THEN LET s == w3.ws
                 w4 == [w3 EXCEPT !.sockets[s].onopen = FALSE,
                                  !.sockets[s].onclose = FALSE,
                                  !.sockets[s].onerror = FALSE,
                                  !.sockets[s].onmessage = FALSE]
                 w5 == IF w4.sockets[s].readyState # "CLOSED" THEN SocketClose(w4, s) ELSE w4
             IN  [w5 EXCEPT !.ws = 0]
        ELSE w3

doDisconnect(w) ==
    LET w1 == IF w.reconnectTimer
              THEN [ClearTimeout(w) EXCEPT !.reconnectTimer = FALSE]
              ELSE w
        w2 == removeVisibilityHandler(stopPingTimer(w1))
        w3 == [w2 EXCEPT !.connected = FALSE, !.reconnectAttempts = 0]
    IN  IF w3.ws # 0
        THEN LET s == w3.ws
                 w4 == [w3 EXCEPT !.sockets[s].onopen = FALSE,
                                  !.sockets[s].onclose = FALSE,
                                  !.sockets[s].onerror = FALSE,
                                  !.sockets[s].onmessage = FALSE]
                 w5 == IF w4.sockets[s].readyState # "CLOSED" THEN SocketClose(w4, s) ELSE w4
             IN  [w5 EXCEPT !.ws = 0]
        ELSE w3

\* variant: the close handler of the old socket stays assigned
forceReconnect_keepsOnclose(w) ==
    LET w1 == [w EXCEPT !.reconnectAttempts = 0]
        w2 == IF w1.ws # 0
              THEN [SocketClose(w1, w1.ws) EXCEPT !.ws = 0]
              ELSE w1
        w3 == [stopPingTimer(w2) EXCEPT !.connected = FALSE]
    IN  doConnect(w3)

forceReconnect(w) ==
    LET w1 == [w EXCEPT !.reconnectAttempts = 0]
        w2 == IF w1.ws # 0
              THEN LET s == w1.ws
                   IN  [SocketClose([w1 EXCEPT !.sockets[s].onclose = FALSE], s) EXCEPT !.ws = 0]
              ELSE w1
        w3 == [stopPingTimer(w2) EXCEPT !.connected = FALSE]
    IN  doConnect(w3)

\* Date.now() - this.lastPong > pingInterval + pongTimeout
Stale(w) == w.pongAge * ClockStep > pingInterval + pongTimeout

\* variant: no staleness test, a probe is sent at every tick
pingTick_noStaleCheck(w) ==
    IF w.ws # 0 /\ w.sockets[w.ws].readyState = "OPEN"
    THEN SendPing(w, w.ws)
    ELSE w

\* body of the setInterval callback of startPingTimer
pingTick(w) ==
    IF w.ws # 0 /\ w.sockets[w.ws].readyState = "OPEN"
    THEN IF Stale(w) THEN SocketClose(w, w.ws) ELSE SendPing(w, w.ws)
    ELSE w

\* variant: the callback clears the handle but does not reconnect
reconnectTick_noConnect(w) == [w EXCEPT !.reconnectTimer = FALSE]

\* body of the setTimeout callback of scheduleReconnect
reconnectTick(w) == doConnect([w EXCEPT !.reconnectTimer = FALSE])

\* variant: a probe is sent whatever the state of the socket
visibilityHandler_probeOnly(w, visibilityState) ==
    IF visibilityState = "visible" /\ shouldReconnect(w)
    THEN IF w.ws = 0 \/ w.sockets[w.ws].readyState # "OPEN"
         THEN w
         ELSE SendPing(w, w.ws)
    ELSE w

\* body of the visibilitychange listener
visibilityHandler(w, visibilityState) ==
    IF visibilityState = "visible" /\ shouldReconnect(w)
    THEN IF w.ws = 0 \/ w.sockets[w.ws].readyState # "OPEN"
         THEN forceReconnect(w)
         ELSE SendPing(w, w.ws)
    ELSE w

\* a socket whose close event has been dispatched is garbage once the
\* channel no longer refers to it
Release(w, s) ==
    IF w.ws = s THEN w ELSE [w EXCEPT !.sockets[s] = FreeSocket]

\* so is a socket the channel has dropped with all four handlers removed:
\* none of its events can reach the channel
Detached(w, s) ==
    /\ w.ws # s
    /\ ~w.sockets[s].onopen /\ ~w.sockets[s].onmessage
    /\ ~w.sockets[s].onclose /\ ~w.sockets[s].onerror

Collect(w) ==
    [w EXCEPT !.sockets = [s \in Slots |-> IF Detached(w, s) THEN FreeSocket ELSE @[s]]]


(***************************************************************************)
(* SessionWatcher                                                          *)
(***************************************************************************)
pollInterval == 500

\* file names are strings, modelled as sequences of characters
EndsWith(str, suffix) ==
    /\ Len(str) >= Len(suffix)
    /\ SubSeq(str, Len(str) - Len(suffix) + 1, Len(str)) = suffix

DotJson == <<".", "j", "s", "o", "n">>

\* "a.json", "b.json" and "json" (which does not end in ".json")
FileNames == {<<"a">> \o DotJson, <<"b">> \o DotJson, <<"j", "s", "o", "n">>}

\* stat.mtimeMs of a file; 0 stands for "no such file"
Mtimes == 1..MaxMtime

\* subscriber callbacks; "bad" raises on every invocation
Callbacks == {"cb", "bad"}
Throws(cb) == cb = "bad"

NoCycle == [ran |-> FALSE, changed |-> FALSE, changes |-> 0, quiet |-> FALSE,
            calls |-> [cb \in Callbacks |-> 0], errors |-> 0, raised |-> FALSE,
            left |-> {}, late |-> FALSE]

\* Fields of the watcher record besides those of the class:
\*   intervals    setInterval timers of the watcher that are running
\*   dir          the sessions directory: readable or not, mtime of each file
\*   seen         the directory as it was at the end of the last poll or baseline
\*   outstanding  per callback, unsubscribe functions returned and not yet invoked
\*   spent        per callback, whether an unsubscribe function was invoked
\*   cycle        outcome of the poll cycle, if the last step was one: the flag
\*                returned by checkForChanges, the number of changes logged,
\*                whether the directory was as at the previous cycle, the
\*                invocations of each callback, the subscriber errors logged,
\*                whether an exception left the interval callback, the
\*                callbacks unsubscribed by a callback during the dispatch,
\*                whether a callback was invoked after it was unsubscribed
WatcherInit0 ==
    [subscribers |-> <<>>, pollTimer |-> FALSE, lastState |-> <<>>,
     intervals |-> 0,
     dir |-> [readable |-> TRUE, files |-> [f \in FileNames |-> 0]],
     seen |-> [readable |-> TRUE, files |-> [f \in FileNames |-> 0]],
     outstanding |-> [cb \in Callbacks |-> 0],
     spent |-> [cb \in Callbacks |-> FALSE],
     cycle |-> NoCycle]

\* readdirSync(SESSIONS_DIR): the names present
Listing(dir) == {f \in FileNames : dir.files[f] # 0}

\* the files of the listing that pass the ".json" filter and whose statSync
\* succeeds (those in vanished were deleted after the listing was read)
Statted(dir, vanished) ==
    {f \in Listing(dir) : EndsWith(f, DotJson) /\ f \notin vanished}

\* the directory once the files in vanished are gone
AfterVanish(dir, vanished) ==
    [dir EXCEPT !.files = [f \in FileNames |-> IF f \in vanished THEN 0 ELSE @[f]]]

updateState(w, vanished) ==
    LET read == IF w.dir.readable THEN Statted(w.dir, vanished) ELSE {}
    IN  [w EXCEPT !.lastState = [f \in read |-> w.dir.files[f]],
                  !.dir = AfterVanish(@, vanished),
                  !.seen = AfterVanish(w.dir, vanished)]

\* variant: the new snapshot is not stored in lastState
checkForChanges_keepsOld(w, vanished) ==
    LET old == w.lastState
        read == IF w.dir.readable THEN Statted(w.dir, vanished) ELSE {}
        newState == [f \in read |-> w.dir.files[f]]
        added == {f \in read : f \notin DOMAIN old}
        modified == {f \in read : f \in DOMAIN old /\ old[f] # newState[f]}
        removed == IF w.dir.readable THEN {f \in DOMAIN old : f \notin read} ELSE {}
        n == Cardinality(added) + Cardinality(modified) + Cardinality(removed)
    IN  [w |-> [w EXCEPT !.dir = AfterVanish(@, vanished),
                         !.seen = AfterVanish(w.dir, vanished)],
         changed |-> n > 0,
         changes |-> n,
         raised |-> FALSE]

\* variant: no try/catch around readdirSync and statSync; the exception
\* leaves the function before lastState is assigned
checkForChanges_noCatch(w, vanished) ==
    LET old == w.lastState
        read == IF w.dir.readable THEN Statted(w.dir, vanished) ELSE {}
        newState == [f \in read |-> w.dir.files[f]]
        added == {f \in read : f \notin DOMAIN old}
        modified == {f \in read : f \in DOMAIN old /\ old[f] # newState[f]}
        removed == IF w.dir.readable THEN {f \in DOMAIN old : f \notin read} ELSE {}
        n == Cardinality(added) + Cardinality(modified) + Cardinality(removed)
        thrown == ~w.dir.readable \/ vanished # {}
    IN  [w |-> [w EXCEPT !.lastState = IF thrown THEN @ ELSE newState,
                         !.dir = AfterVanish(@, vanished),
                         !.seen = AfterVanish(w.dir, vanished)],
         changed |-> ~thrown /\ n > 0,
         changes |-> IF thrown THEN 0 ELSE n,
         raised |-> thrown]

\* variant: a record counts as modified only if its mtime has grown
checkForChanges_newerOnly(w, vanished) ==
    LET old == w.lastState
        read == IF w.dir.readable THEN Statted(w.dir, vanished) ELSE {}
        newState == [f \in read |-> w.dir.files[f]]
        added == {f \in read : f \notin DOMAIN old}
        modified == {f \in read : f \in DOMAIN old /\ old[f] < newState[f]}
        removed == IF w.dir.readable THEN {f \in DOMAIN old : f \notin read} ELSE {}
        n == Cardinality(added) + Cardinality(modified) + Cardinality(removed)
    IN  [w |-> [w EXCEPT !.lastState = newState,
                         !.dir = AfterVanish(@, vanished),
                         !.seen = AfterVanish(w.dir, vanished)],
         changed |-> n > 0,
         changes |-> n,
         raised |-> FALSE]

\* checkForChanges: the new snapshot, the returned flag, the number of
\* "File added / changed / removed" lines logged, and whether an exception
\* left the function (every readdirSync and statSync is inside a try/catch)
checkForChanges(w, vanished) ==
    LET old == w.lastState
        read == IF w.dir.readable THEN Statted(w.dir, vanished) ELSE {}
        newState == [f \in read |-> w.dir.files[f]]
        added == {f \in read : f \notin DOMAIN old}
        modified == {f \in read : f \in DOMAIN old /\ old[f] # newState[f]}
        removed == IF w.dir.readable THEN {f \in DOMAIN old : f \notin read} ELSE {}
        n == Cardinality(added) + Cardinality(modified) + Cardinality(removed)
    IN  [w |-> [w EXCEPT !.lastState = newState,
                         !.dir = AfterVanish(@, vanished),
                         !.seen = AfterVanish(w.dir, vanished)],
         changed |-> n > 0,
         changes |-> n,
         raised |-> FALSE]

\* notifySubscribers: every callback of the set, in insertion order, each in
\* its own try/catch
\* variant: no try/catch, the first exception ends the loop
RECURSIVE notifyFrom_noCatch(_, _, _)
notifyFrom_noCatch(w, subs, i) ==
    IF i > Len(subs) THEN w
    ELSE LET w1 == [w EXCEPT !.cycle.calls[subs[i]] = @ + 1]
         IN  IF Throws(subs[i])
             THEN [w1 EXCEPT !.cycle.errors = @ + 1]
             ELSE notifyFrom_noCatch(w1, subs, i + 1)

RECURSIVE notifyFrom(_, _, _)
notifyFrom(w, subs, i) ==
    IF i > Len(subs) THEN w
    ELSE LET w1 == [w EXCEPT !.cycle.calls[subs[i]] = @ + 1]
             w2 == IF Throws(subs[i]) THEN [w1 EXCEPT !.cycle.errors = @ + 1] ELSE w1
         IN  notifyFrom(w2, subs, i + 1)

notifySubscribers(w) == notifyFrom(w, w.subscribers, 1)

\* variant: subscribers are notified once per changed record
RECURSIVE notifyTimes(_, _)
notifyTimes(w, n) == IF n = 0 THEN w ELSE notifyTimes(notifySubscribers(w), n - 1)

pollTick_perRecord(w, vanished) ==
    LET r == checkForChanges(w, vanished)
        w1 == [r.w EXCEPT !.cycle = [NoCycle EXCEPT !.ran = TRUE,
                                                    !.changed = r.changed,
                                                    !.changes = r.changes]]
    IN  notifyTimes(w1, r.changes)

\* body of the setInterval callback of start()
pollTick(w, vanished) ==
    LET r == checkForChanges(w, vanished)
        w1 == [r.w EXCEPT !.cycle = [NoCycle EXCEPT !.ran = TRUE,
                                                    !.changed = r.changed,
                                                    !.changes = r.changes,
                                                    !.raised = r.raised]]
    IN  IF r.changed THEN notifySubscribers(w1) ELSE w1

\* variant: the loop starts without reading the directory
start_noBaseline(w, vanished) ==
    IF w.pollTimer THEN w
    ELSE [w EXCEPT !.pollTimer = TRUE, !.intervals = @ + 1,
                   !.dir = AfterVanish(@, vanished),
                   !.seen = AfterVanish(w.dir, vanished)]

start(w, vanished) ==
    IF w.pollTimer THEN w
    ELSE [updateState(w, vanished) EXCEPT !.pollTimer = TRUE, !.intervals = @ + 1]

stop(w) ==
    LET w1 == IF w.pollTimer
              THEN [w EXCEPT !.pollTimer = FALSE, !.intervals = IF @ > 0 THEN @ - 1 ELSE 0]
              ELSE w
    IN  [w1 EXCEPT !.lastState = <<>>]

\* Set.prototype.add / delete on the insertion-ordered set of callbacks
SetAdd(seq, x) ==
    IF \E i \in 1..Len(seq) : seq[i] = x THEN seq ELSE Append(seq, x)
SetDelete(seq, x) == SelectSeq(seq, LAMBDA y : y # x)

subscribe(w, callback, vanished) ==
    LET w1 == [w EXCEPT !.subscribers = SetAdd(@, callback)]
    IN  IF Len(w1.subscribers) = 1 THEN start(w1, vanished) ELSE w1

\* the function returned by subscribe(callback)
unsubscribe(w, callback) ==
    LET w1 == [w EXCEPT !.subscribers = SetDelete(@, callback)]
    IN  IF Len(w1.subscribers) = 0 THEN stop(w1) ELSE w1

\* A dispatch in which a callback calls an unsubscribe function: when
\* callback act.by is invoked it invokes the unsubscribe function of act.whom
IsSubscribed(w, cb) == \E i \in 1..Len(w.subscribers) : w.subscribers[i] = cb

NoAct == [by |-> "", whom |-> ""]
Acts == {NoAct} \cup {[by |-> a, whom |-> b] : a \in Callbacks, b \in Callbacks}

\* variant: the loop runs over a copy of the set made when it starts
RECURSIVE notifyWith_snapshot(_, _, _)
notifyWith_snapshot(w, pending, act) ==
    IF pending = <<>> THEN w
    ELSE LET cb == Head(pending)
             w1 == [w EXCEPT !.cycle.calls[cb] = @ + 1,
                             !.cycle.late = @ \/ ~IsSubscribed(w, cb)]
             w2 == IF act.by = cb
                   THEN [unsubscribe(w1, act.whom) EXCEPT !.cycle.left = @ \cup {act.whom}]
                   ELSE w1
             w3 == IF Throws(cb) THEN [w2 EXCEPT !.cycle.errors = @ + 1] ELSE w2
         IN  notifyWith_snapshot(w3, Tail(pending), act)

\* the loop of notifySubscribers over the live Set: a callback deleted
\* before its turn is not visited
RECURSIVE notifyWith(_, _, _)
notifyWith(w, pending, act) ==
    IF pending = <<>> THEN w
    ELSE LET cb == Head(pending)
             w1 == [w EXCEPT !.cycle.calls[cb] = @ + 1,
                             !.cycle.late = @ \/ ~IsSubscribed(w, cb)]
             w2 == IF act.by = cb
                   THEN [unsubscribe(w1, act.whom) EXCEPT !.cycle.left = @ \cup {act.whom}]
                   ELSE w1
             w3 == IF Throws(cb) THEN [w2 EXCEPT !.cycle.errors = @ + 1] ELSE w2
         IN  notifyWith(w3, SelectSeq(Tail(pending), LAMBDA c : IsSubscribed(w3, c)), act)

\* body of the setInterval callback of start(), with such a callback
pollTickWith(w, vanished, act) ==
    LET r == checkForChanges(w, vanished)
        w1 == [r.w EXCEPT !.cycle = [NoCycle EXCEPT !.ran = TRUE,
                                                    !.changed = r.changed,
                                                    !.changes = r.changes,
                                                    !.raised = r.raised]]
    IN  IF r.changed THEN notifyWith(w1, w1.subscribers, act) ELSE w1

(***************************************************************************)
(* SessionWatcher: operations and events                                   *)
(***************************************************************************)
WatcherStep(w) == watcher' = w /\ UNCHANGED <<channel, terminal, store>>

Forget(w) == [w EXCEPT !.cycle = NoCycle]

\* files that can vanish between readdirSync and statSync
CanVanish(w) == SUBSET {f \in Listing(w.dir) : EndsWith(f, DotJson)}

Subscribe(cb, vanished) ==
    /\ watcher.outstanding[cb] < MaxSubscriptions
    /\ vanished \in CanVanish(watcher)
    /\ vanished = {} \/ (watcher.subscribers = <<>> /\ watcher.dir.readable)
    /\ WatcherStep([subscribe(Forget(watcher), cb, vanished)
                       EXCEPT !.outstanding[cb] = @ + 1])

\* an unsubscribe function is invoked for the first time
Unsubscribe(cb) ==
    /\ watcher.outstanding[cb] > 0
    /\ WatcherStep([unsubscribe(Forget(watcher), cb)
                       EXCEPT !.outstanding[cb] = @ - 1, !.spent[cb] = TRUE])

\* an unsubscribe function that was invoked before is invoked again
UnsubscribeAgain(cb) ==
    /\ watcher.spent[cb]
    /\ WatcherStep(unsubscribe(Forget(watcher), cb))

\* the poll interval fires; act says which callback, if any, invokes an
\* unsubscribe function (one not invoked before) when it is called, which
\* it is in a cycle that detects a change
PollTick(vanished, act) ==
    /\ watcher.intervals > 0
    /\ vanished \in CanVanish(watcher)
    /\ vanished = {} \/ watcher.dir.readable
    /\ act # NoAct =>
          /\ IsSubscribed(watcher, act.by) /\ watcher.outstanding[act.whom] > 0
          /\ vanished = {} /\ checkForChanges(watcher, vanished).changed
    /\ LET quiet == watcher.dir = watcher.seen /\ vanished = {}
           w == IF act = NoAct THEN pollTick(watcher, vanished)
                ELSE pollTickWith(watcher, vanished, act)
           w1 == IF act # NoAct /\ w.cycle.left # {}
                 THEN [w EXCEPT !.outstanding[act.whom] = @ - 1, !.spent[act.whom] = TRUE]
                 ELSE w
       IN  WatcherStep([w1 EXCEPT !.cycle.quiet = quiet])

\* a file is written: created, or its mtime changes (statSync is only called
\* on names that pass the ".json" filter: any other file is present or absent)
WriteFile(f, m) ==
    /\ watcher.dir.files[f] # m
    /\ EndsWith(f, DotJson) \/ m = 1
    /\ WatcherStep([Forget(watcher) EXCEPT !.dir.files[f] = m])

\* a session record is deleted
DeleteFile(f) ==
    /\ watcher.dir.files[f] # 0
    /\ WatcherStep([Forget(watcher) EXCEPT !.dir.files[f] = 0])

\* the directory becomes unreadable, or readable again
SetReadable ==
    WatcherStep([Forget(watcher) EXCEPT !.dir.readable = ~@])

WatcherNext ==
    \/ \E cb \in Callbacks, v \in SUBSET FileNames : Subscribe(cb, v)
    \/ \E cb \in Callbacks : Unsubscribe(cb)
    \/ \E cb \in Callbacks : UnsubscribeAgain(cb)
    \/ \E v \in SUBSET FileNames : PollTick(v, NoAct)
    \/ \E act \in Acts \ {NoAct} : PollTick({}, act)
    \/ \E f \in FileNames, m \in Mtimes : WriteFile(f, m)
    \/ \E f \in FileNames : DeleteFile(f)
    \/ SetReadable

(***************************************************************************)
(* TerminalStore                                                           *)
(***************************************************************************)
reconnectDelay == 2000
resizeDebounce == 150

\* pane targets; "" stands for a null, undefined or empty argument
Targets == {"A", "B"}
NoTarget == ""

\* payloads: the text of an output frame is <<target, text>>, so that the
\* pane it shows is known; <<>> is the empty string
Texts == {"X", "Y"}
NoOutput == <<>>

\* terminal sizes <<cols, rows>>; <<>> stands for null
Sizes == {<<80, 24>>, <<81, 24>>}
NoSize == <<>>

\* inbound frames of the stream of target t: {"output": ...} or a JSON
\* object without an output field
FramesOf(t) == {[output |-> <<t, x>>] : x \in Texts} \cup {[other |-> TRUE]}

\* A WebSocket object of the store: as for the channel, with the target its
\* URL names and whether an output frame was delivered from it
TFreeSocket == [readyState |-> "FREE", onopen |-> FALSE, onmessage |-> FALSE,
                onclose |-> FALSE, onerror |-> FALSE, established |-> FALSE,
                target |-> NoTarget, delivered |-> FALSE]

TNewSocket(t) == [readyState |-> "CONNECTING", onopen |-> TRUE, onmessage |-> TRUE,
                  onclose |-> TRUE, onerror |-> TRUE, established |-> FALSE,
                  target |-> t, delivered |-> FALSE]

\* reconnectTimer is 0 (null) or the id of the timer it was set to, which
\* may have fired; timeouts are the pending reconnect timers (id and delay).
\* resizeTimer is <<>> (null) or holds the pending debounce timer: the size
\* its callback has captured and its delay.
\* History fields (not fields of the class):
\*   wire      the sizes of the resize frames written to a socket, in order
\*   lastCall  the size passed to the last sendResize() made on the open
\*             socket since the debounce timer last fired, if any
\*   retry     the socket created last was created by the reconnect timer
\*   latest    the output of the last output-bearing frame that arrived on
\*             the socket held since connect() last set another target
TerminalInit0 ==
    [output |-> NoOutput, connected |-> FALSE, ws |-> 0, reconnectTimer |-> 0,
     target |-> NoTarget, resizeTimer |-> <<>>, lastSentSize |-> NoSize,
     sockets |-> [s \in Slots |-> TFreeSocket],
     timeouts |-> {},
     wire |-> <<>>, lastCall |-> NoSize, retry |-> FALSE, latest |-> NoOutput]

THasFreeSlot(t) == \E s \in Slots : t.sockets[s].readyState = "FREE"
TFreeSlot(t) == CHOOSE s \in Slots : t.sockets[s].readyState = "FREE"

\* setTimeout returns an id not in use
FreshTimer(t) ==
    CHOOSE id \in 1..(Cardinality(t.timeouts) + 2) :
        id \notin {x.id : x \in t.timeouts} /\ id # t.reconnectTimer

\* the handler removal and close() shared by connect() and disconnect()
DropSocket(t) ==
    IF t.ws # 0
    THEN LET s == t.ws
             t1 == [t EXCEPT !.sockets[s].onopen = FALSE,
                             !.sockets[s].onclose = FALSE,
                             !.sockets[s].onerror = FALSE,
                             !.sockets[s].onmessage = FALSE]
             t2 == IF t1.sockets[s].readyState \notin {"CLOSED"}
                   THEN SocketClose(t1, s) ELSE t1
         IN  [t2 EXCEPT !.ws = 0]
    ELSE t

CancelReconnect(t) ==
    IF t.reconnectTimer # 0
    THEN [t EXCEPT !.timeouts = {x \in @ : x.id # t.reconnectTimer},
                   !.reconnectTimer = 0]
    ELSE t

\* variant: the buffer is kept when the target changes
connect_keepsOutput(t, target) ==
    IF target = NoTarget THEN t
    ELSE IF t.ws # 0 /\ t.target = target THEN t
    ELSE LET t1 == DropSocket(CancelReconnect(t))
             t3 == [t1 EXCEPT !.target = target, !.connected = FALSE]
             s == TFreeSlot(t3)
         IN  [t3 EXCEPT !.ws = s, !.sockets[s] = TNewSocket(target)]

\* variant: a pending reconnect timer is not cancelled
connect_keepsTimer(t, target) ==
    IF target = NoTarget THEN t
    ELSE IF t.ws # 0 /\ t.target = target THEN t
    ELSE LET t1 == DropSocket(t)
             t2 == IF t1.target # target THEN [t1 EXCEPT !.output = NoOutput] ELSE t1
             t3 == [t2 EXCEPT !.target = target, !.connected = FALSE]
             s == TFreeSlot(t3)
         IN  [t3 EXCEPT !.ws = s, !.sockets[s] = TNewSocket(target)]

\* variant: no early return for the target already connected
connect_noSameCheck(t, target) ==
    IF target = NoTarget THEN t
    ELSE LET t1 == DropSocket(CancelReconnect(t))
             t2 == IF t1.target # target THEN [t1 EXCEPT !.output = NoOutput] ELSE t1
             t3 == [t2 EXCEPT !.target = target, !.connected = FALSE]
             s == TFreeSlot(t3)
         IN  [t3 EXCEPT !.ws = s, !.sockets[s] = TNewSocket(target)]

connect(t, target) ==
    IF target = NoTarget THEN t
    ELSE IF t.ws # 0 /\ t.target = target THEN t
    ELSE LET t1 == DropSocket(CancelReconnect(t))
             t2 == IF t1.target # target THEN [t1 EXCEPT !.output = NoOutput] ELSE t1
             t3 == [t2 EXCEPT !.target = target, !.connected = FALSE]
             s == TFreeSlot(t3)
         IN  [t3 EXCEPT !.ws = s, !.sockets[s] = TNewSocket(target)]

\* the four handlers connect() assigns to the socket
termOnopen(t) == [t EXCEPT !.connected = TRUE]

\* variant: the text of the frame is appended to the buffer
termOnmessage_appends(t, frame) ==
    IF "output" \in DOMAIN frame THEN [t EXCEPT !.output = @ \o frame.output] ELSE t

termOnmessage(t, frame) ==
    IF "output" \in DOMAIN frame THEN [t EXCEPT !.output = frame.output] ELSE t

\* variant: the delay doubles when the connection was never established
termOnclose_backoff(t) ==
    LET t1 == [t EXCEPT !.connected = FALSE, !.ws = 0]
        d == IF t.connected THEN reconnectDelay ELSE 2 * reconnectDelay
    IN  IF t1.target # NoTarget
        THEN LET id == FreshTimer(t1)
             IN  [t1 EXCEPT !.reconnectTimer = id,
                            !.timeouts = @ \cup {[id |-> id, delay |-> d]}]
        ELSE t1

termOnclose(t) ==
    LET t1 == [t EXCEPT !.connected = FALSE, !.ws = 0]
    IN  IF t1.target # NoTarget
        THEN LET id == FreshTimer(t1)
             IN  [t1 EXCEPT !.reconnectTimer = id,
                            !.timeouts = @ \cup {[id |-> id, delay |-> reconnectDelay]}]
        ELSE t1

termOnerror(t) == t

\* variant: the buffer is emptied as well
disconnect_clearsOutput(t) ==
    LET t1 == CancelReconnect(t)
        t2 == [t1 EXCEPT !.resizeTimer = <<>>, !.lastSentSize = NoSize,
                         !.target = NoTarget, !.connected = FALSE,
                         !.output = NoOutput]
    IN  DropSocket(t2)

\* variant: the pending debounced resize is not cancelled
disconnect_keepsResize(t) ==
    LET t1 == CancelReconnect(t)
        t2 == [t1 EXCEPT !.lastSentSize = NoSize,
                         !.target = NoTarget, !.connected = FALSE]
    IN  DropSocket(t2)

disconnect(t) ==
    LET t1 == CancelReconnect(t)
        t2 == [t1 EXCEPT !.resizeTimer = <<>>, !.lastSentSize = NoSize,
                         !.target = NoTarget, !.connected = FALSE]
    IN  DropSocket(t2)

TSocketOpen(t) == t.ws # 0 /\ t.sockets[t.ws].readyState = "OPEN"

\* variant: no comparison with the last size sent
sendResize_noSkip(t, size) ==
    IF ~TSocketOpen(t) THEN t
    ELSE [t EXCEPT !.resizeTimer = <<[size |-> size, delay |-> resizeDebounce]>>]

sendResize(t, size) ==
    IF ~TSocketOpen(t) THEN t
    ELSE IF t.lastSentSize = size THEN t
    ELSE [t EXCEPT !.resizeTimer = <<[size |-> size, delay |-> resizeDebounce]>>]

\* body of the setTimeout callback of sendResize, which captured size
resizeTick(t, size) ==
    LET t1 == IF TSocketOpen(t)
              THEN [t EXCEPT !.wire = Append(@, size), !.lastSentSize = size]
              ELSE t
    IN  [t1 EXCEPT !.resizeTimer = <<>>]

\* body of the setTimeout callback of the close handler
termReconnectTick(t) == connect(t, t.target)

TRelease(t, s) ==
    IF t.ws = s THEN t ELSE [t EXCEPT !.sockets[s] = TFreeSocket]

(***************************************************************************)
(* TerminalStore: operations and events                                    *)
(***************************************************************************)
\* a burst of sendResize() calls ends with the socket it was made on
TerminalStep(t) ==
    /\ terminal' = IF t.ws # terminal.ws THEN [t EXCEPT !.lastCall = NoSize] ELSE t
    /\ UNCHANGED <<channel, watcher, store>>

\* connect(target) opens a socket unless it returns early
Opens(t, target) ==
    target # NoTarget /\ ~(t.ws # 0 /\ t.target = target)

TermConnect(target) ==
    /\ Opens(terminal, target) => THasFreeSlot(terminal)
    /\ TerminalStep(IF Opens(terminal, target)
                    THEN [connect(terminal, target) EXCEPT
                             !.retry = FALSE,
                             !.latest = IF terminal.target # target
                                        THEN NoOutput ELSE @]
                    ELSE connect(terminal, target))

TermDisconnect ==
    TerminalStep([disconnect(terminal) EXCEPT !.retry = FALSE])

TermSocketOpened(s) ==
    /\ terminal.sockets[s].readyState = "CONNECTING"
    /\ LET t1 == [terminal EXCEPT !.sockets[s].readyState = "OPEN",
                                  !.sockets[s].established = TRUE]
       IN  TerminalStep(IF t1.sockets[s].onopen
                        THEN [termOnopen(t1) EXCEPT !.retry = FALSE] ELSE t1)

TermSocketMessage(s, frame) ==
    /\ terminal.sockets[s].readyState = "OPEN"
    /\ frame \in FramesOf(terminal.sockets[s].target)
    /\ LET t1 == IF terminal.sockets[s].onmessage
                 THEN [termOnmessage(terminal, frame)
                          EXCEPT !.sockets[s].delivered = @ \/ "output" \in DOMAIN frame]
                 ELSE terminal
       IN  TerminalStep(IF s = terminal.ws /\ "output" \in DOMAIN frame
                        THEN [t1 EXCEPT !.latest = frame.output] ELSE t1)

\* socket s closes cleanly: close event
TermSocketClosed(s) ==
    /\ terminal.sockets[s].readyState \in {"OPEN", "CLOSING"}
    /\ terminal.sockets[s].established
    /\ LET t1 == [terminal EXCEPT !.sockets[s].readyState = "CLOSED"]
           t2 == IF t1.sockets[s].onclose THEN termOnclose(t1) ELSE t1
       IN  TerminalStep(TRelease(t2, s))

\* the connection of socket s fails: error event, then close event
TermSocketFailed(s) ==
    /\ terminal.sockets[s].readyState \in {"CONNECTING", "OPEN", "CLOSING"}
    /\ LET t1 == [terminal EXCEPT !.sockets[s].readyState = "CLOSED"]
           t2 == IF t1.sockets[s].onerror THEN termOnerror(t1) ELSE t1
           t3 == IF t2.sockets[s].onclose THEN termOnclose(t2) ELSE t2
       IN  TerminalStep(TRelease(t3, s))

\* the pending reconnect timer id fires
TermReconnectTick(id) ==
    /\ \E x \in terminal.timeouts : x.id = id
    /\ LET t1 == [terminal EXCEPT !.timeouts = {x \in @ : x.id # id}]
       IN  /\ Opens(t1, t1.target) => THasFreeSlot(t1)
           /\ TerminalStep(IF Opens(t1, t1.target)
                           THEN [termReconnectTick(t1) EXCEPT !.retry = TRUE]
                           ELSE termReconnectTick(t1))

\* the view calls sendResize(cols, rows)
SendResize(size) ==
    /\ \/ Len(terminal.wire) < MaxResizes
       \/ sendResize(terminal, size) = terminal
    /\ LET t1 == sendResize(terminal, size)
       IN  TerminalStep(IF TSocketOpen(terminal)
                        THEN [t1 EXCEPT !.lastCall = size] ELSE t1)

\* the debounce timer fires
ResizeTick ==
    /\ terminal.resizeTimer # <<>>
    /\ TerminalStep([resizeTick(terminal, terminal.resizeTimer[1].size)
                        EXCEPT !.lastCall = NoSize])

TerminalNext ==
    \/ \E target \in Targets \cup {NoTarget} : TermConnect(target)
    \/ TermDisconnect
    \/ \E s \in Slots : TermSocketOpened(s)
    \/ \E s \in Slots, t \in Targets : \E f \in FramesOf(t) : TermSocketMessage(s, f)
    \/ \E s \in Slots : TermSocketClosed(s)
    \/ \E s \in Slots : TermSocketFailed(s)
    \/ \E id \in 1..MaxSockets + 2 : TermReconnectTick(id)
    \/ \E size \in Sizes : SendResize(size)
    \/ ResizeTick

(***************************************************************************)
(* ReliableWebSocket: operations and events                                *)
(***************************************************************************)
ChannelStep(w) == channel' = w /\ UNCHANGED <<watcher, terminal, store>>

\* the owner calls connect(), which is doConnect()
Connect ==
    /\ channel.ws # 0 \/ HasFreeSlot(channel)
    /\ ChannelStep([doConnect(channel) EXCEPT !.live = TRUE])

\* the owner calls disconnect(), which is doDisconnect()
Disconnect ==
    ChannelStep(Collect([doDisconnect(channel) EXCEPT !.live = FALSE]))

\* the owner calls forceReconnect()
ForceReconnect ==
    /\ HasFreeSlot(channel)
    /\ ChannelStep([forceReconnect(channel) EXCEPT !.live = TRUE])

\* the handshake of socket s completes: open event
SocketOpened(s) ==
    /\ channel.sockets[s].readyState = "CONNECTING"
    /\ LET w1 == [channel EXCEPT !.sockets[s].readyState = "OPEN",
                                 !.sockets[s].established = TRUE]
       IN  ChannelStep(IF w1.sockets[s].onopen THEN onopen(w1) ELSE w1)

\* a frame arrives on socket s: message event (open sockets only)
SocketMessage(s, data) ==
    /\ channel.sockets[s].readyState = "OPEN"
    /\ data = "pong" \/ Len(channel.handled) < MaxHandled
    /\ LET w1 == IF data = "pong" THEN [channel EXCEPT !.sockets[s].pinged = FALSE]
                 ELSE channel
       IN  ChannelStep(IF w1.sockets[s].onmessage THEN onmessage(w1, data) ELSE w1)

\* socket s closes cleanly: close event
SocketClosed(s, jitter) ==
    /\ channel.sockets[s].readyState \in {"OPEN", "CLOSING"}
    /\ channel.sockets[s].established
    /\ LET w1 == [channel EXCEPT !.sockets[s].readyState = "CLOSED"]
           w2 == IF w1.sockets[s].onclose THEN onclose(w1, jitter) ELSE w1
       IN  /\ w2.reconnectAttempts <= MaxAttempts
           /\ ChannelStep(Release(w2, s))

\* the connection of socket s fails: error event, then close event
SocketFailed(s, jitter) ==
    /\ channel.sockets[s].readyState \in {"CONNECTING", "OPEN", "CLOSING"}
    /\ LET w1 == [channel EXCEPT !.sockets[s].readyState = "CLOSED"]
           w2 == IF w1.sockets[s].onerror THEN onerror(w1) ELSE w1
           w3 == IF w2.sockets[s].onclose THEN onclose(w2, jitter) ELSE w2
       IN  /\ w3.reconnectAttempts <= MaxAttempts
           /\ ChannelStep(Release(w3, s))

\* the keep-alive interval fires
PingTick ==
    /\ channel.intervals > 0
    /\ ChannelStep(pingTick(channel))

\* the i-th pending reconnect timeout fires
ReconnectTick(i) ==
    /\ i \in 1..Len(channel.timeouts)
    /\ channel.ws # 0 \/ HasFreeSlot(channel)
    /\ LET w1 == [channel EXCEPT !.timeouts =
                      SubSeq(@, 1, i - 1) \o SubSeq(@, i + 1, Len(@))]
       IN  ChannelStep(reconnectTick(w1))

\* document.visibilityState changes to v: visibilitychange event, delivered
\* to the listener the channel has registered
\* (a WebSocket object is allocated only on the forceReconnect() branch)
VisibilityChange(v) ==
    /\ channel.listeners > 0
    /\ \/ HasFreeSlot(channel)
       \/ ~(v = "visible" /\ shouldReconnect(channel))
       \/ channel.ws # 0 /\ channel.sockets[channel.ws].readyState = "OPEN"
    /\ ChannelStep(visibilityHandler(channel, v))

\* the specialisation's reconnect-eligibility predicate changes value
SetEligible ==
    ChannelStep([channel EXCEPT !.eligible = ~@])

\* time passes
Advance ==
    /\ channel.pongAge < MaxAge
    /\ ChannelStep([channel EXCEPT !.pongAge = @ + 1])

ChannelNext ==
    \/ Connect
    \/ Disconnect
    \/ ForceReconnect
    \/ \E s \in Slots : SocketOpened(s)
    \/ \E s \in Slots, d \in Frames : SocketMessage(s, d)
    \/ \E s \in Slots, j \in Jitters : SocketClosed(s, j)
    \/ \E s \in Slots, j \in Jitters : SocketFailed(s, j)
    \/ PingTick
    \/ \E i \in 1..MaxSockets + 1 : ReconnectTick(i)
    \/ \E v \in {"visible", "hidden"} : VisibilityChange(v)
    \/ SetEligible
    \/ Advance

(***************************************************************************)
(* Session store and project tree of the main page                         *)
(***************************************************************************)
\* strings are sequences of characters; UTF-16 code units of the characters
Code(c) ==
    CASE c = "/" -> 47
      [] c = "a" -> 97
      [] c = "b" -> 98
      [] c = "c" -> 99
      [] c = "d" -> 100

Slash == <<"/">>

\* String.prototype.startsWith
StartsWith(str, prefix) ==
    /\ Len(str) >= Len(prefix)
    /\ SubSeq(str, 1, Len(prefix)) = prefix

\* a < b in the order of Array.prototype.sort() without comparator
RECURSIVE LexLess(_, _)
LexLess(a, b) ==
    IF a = <<>> THEN b # <<>>
    ELSE IF b = <<>> THEN FALSE
    ELSE IF Code(Head(a)) # Code(Head(b)) THEN Code(Head(a)) < Code(Head(b))
    ELSE LexLess(Tail(a), Tail(b))

RECURSIVE SortStrings(_)
SortStrings(S) ==
    IF S = {} THEN <<>>
    ELSE LET m == CHOOSE x \in S : \A y \in S \ {x} : LexLess(x, y)
         IN  <<m>> \o SortStrings(S \ {m})

\* working directories of sessions and saved projects; <<>> is a session
\* without cwd
NoCwd == <<>>
Cwds == {<<"/", "a">>, <<"/", "a", "/", "b">>, <<"/", "a", "/", "b", "/", "c">>,
         <<"/", "a", "/", "d">>, <<"/", "a", "b">>, <<"/", "a", "/">>}
SavedCwds == {<<"/", "a">>, <<"/", "a", "/", "d">>}
MaxCwdLen == 6

\* sessionStore: a session is represented by its cwd, its identity is its
\* position in the list. missed is a history field: a snapshot was discarded
\* since a snapshot was last applied.
StoreInit0 == [sessions |-> <<>>, savedProjects |-> {}, paused |-> FALSE,
               missed |-> FALSE]

\* the list of a pushed snapshot
RECURSIVE SeqsUpTo(_, _)
SeqsUpTo(S, n) ==
    IF n = 0 THEN {<<>>}
    ELSE LET shorter == SeqsUpTo(S, n - 1)
         IN  shorter \cup {Append(q, x) : q \in {r \in shorter : Len(r) = n - 1}, x \in S}

Snapshots == SeqsUpTo(Cwds \cup {NoCwd}, MaxSessions)

\* sessionsByProject: sessions (positions) grouped by cwd || 'unknown'
Unknown == <<"unknown">>
GroupKey(cwd) == IF cwd = NoCwd THEN Unknown ELSE cwd

sessionsByProject(st) ==
    [key \in {GroupKey(st.sessions[i]) : i \in 1..Len(st.sessions)} |->
        SelectSeq([i \in 1..Len(st.sessions) |-> i],
                  LAMBDA i : GroupKey(st.sessions[i]) = key)]

\* allProjects: the cwds of the sessions that have one and the saved
\* projects, sorted
allProjects(st) ==
    SortStrings({st.sessions[i] : i \in {j \in 1..Len(st.sessions) : st.sessions[j] # NoCwd}}
                \cup st.savedProjects)

\* [...projects].sort((a, b) => a.length - b.length): a stable sort
RECURSIVE ByLengthFrom(_, _)
ByLengthFrom(seq, n) ==
    IF n > MaxCwdLen THEN <<>>
    ELSE SelectSeq(seq, LAMBDA x : Len(x) = n) \o ByLengthFrom(seq, n + 1)

SortByLength(seq) == ByLengthFrom(seq, 0)

NoParent == <<>>

\* variant: the first matching prefix is taken, not the longest
RECURSIVE findParent_first(_, _, _, _, _)
findParent_first(sorted, cwd, nodeMap, j, parent) ==
    IF j > Len(sorted) THEN parent
    ELSE LET potentialParent == sorted[j]
             better ==
                 /\ potentialParent # cwd
                 /\ StartsWith(cwd, potentialParent \o Slash)
                 /\ potentialParent \in DOMAIN nodeMap
                 /\ parent = NoParent
         IN  findParent_first(sorted, cwd, nodeMap, j + 1,
                              IF better THEN potentialParent ELSE parent)

\* the inner loop of projectTree: the longest matching prefix that is a node
RECURSIVE findParent(_, _, _, _, _)
findParent(sorted, cwd, nodeMap, j, parent) ==
    IF j > Len(sorted) THEN parent
    ELSE LET potentialParent == sorted[j]
             better ==
                 /\ potentialParent # cwd
                 /\ StartsWith(cwd, potentialParent \o Slash)
                 /\ potentialParent \in DOMAIN nodeMap
                 /\ parent = NoParent \/ Len(potentialParent) > Len(parent)
         IN  findParent(sorted, cwd, nodeMap, j + 1,
                        IF better THEN potentialParent ELSE parent)

\* the outer loop of projectTree; a node is [cwd, sessions, children, depth],
\* children and roots hold the cwds of the nodes in the order pushed
RECURSIVE buildTree(_, _, _, _)
buildTree(sorted, sessionsMap, i, acc) ==
    IF i > Len(sorted) THEN acc
    ELSE LET cwd == sorted[i]
             parent == findParent(sorted, cwd, acc.nodeMap, 1, NoParent)
             node == [cwd |-> cwd,
                      sessions |-> IF cwd \in DOMAIN sessionsMap
                                   THEN sessionsMap[cwd] ELSE <<>>,
                      children |-> <<>>,
                      depth |-> IF parent # NoParent
                                THEN acc.nodeMap[parent].depth + 1 ELSE 0]
             linked == IF parent # NoParent
                       THEN [acc EXCEPT !.nodeMap[parent].children = Append(@, cwd)]
                       ELSE [acc EXCEPT !.roots = Append(@, cwd)]
             nodeMap2 == [c \in DOMAIN linked.nodeMap \cup {cwd} |->
                             IF c = cwd THEN node ELSE linked.nodeMap[c]]
         IN  buildTree(sorted, sessionsMap, i + 1, [linked EXCEPT !.nodeMap = nodeMap2])

projectTree(st) ==
    buildTree(SortByLength(allProjects(st)), sessionsByProject(st), 1,
              [roots |-> <<>>, nodeMap |-> <<>>])

\* flattenTree: the nodes in pre-order
RECURSIVE flattenTree(_, _)
flattenTree(nodeMap, nodes) ==
    IF nodes = <<>> THEN <<>>
    ELSE LET node == nodeMap[Head(nodes)]
         IN  <<node>>
                 \o (IF Len(node.children) > 0
                     THEN flattenTree(nodeMap, node.children) ELSE <<>>)
                 \o flattenTree(nodeMap, Tail(nodes))

flatProjects(st) ==
    LET tree == projectTree(st)
    IN  flattenTree(tree.nodeMap, tree.roots)

(***************************************************************************)
(* Session store: operations                                               *)
(***************************************************************************)
StoreStep(st) == store' = st /\ UNCHANGED <<channel, watcher, terminal>>

\* variant: the snapshot is applied while paused as well
handleSnapshot_ignoresPause(st, snapshot) == [st EXCEPT !.sessions = snapshot]

\* a snapshot pushed by the server is received
handleSnapshot(st, snapshot) ==
    IF st.paused THEN st ELSE [st EXCEPT !.sessions = snapshot]

togglePause(st) == [st EXCEPT !.paused = ~@]

saveProject(st, cwd) == [st EXCEPT !.savedProjects = @ \cup {cwd}]

removeProject(st, cwd) == [st EXCEPT !.savedProjects = @ \ {cwd}]

PushSnapshot(snapshot) ==
    StoreStep([handleSnapshot(store, snapshot) EXCEPT !.missed = store.paused])

TogglePause ==
    StoreStep(togglePause(store))

SaveProject(cwd) ==
    /\ cwd \notin store.savedProjects
    /\ StoreStep(saveProject(store, cwd))

RemoveProject(cwd) ==
    /\ cwd \in store.savedProjects
    /\ StoreStep(removeProject(store, cwd))

StoreNext ==
    \/ \E snapshot \in Snapshots : PushSnapshot(snapshot)
    \/ TogglePause
    \/ \E cwd \in SavedCwds : SaveProject(cwd)
    \/ \E cwd \in SavedCwds : RemoveProject(cwd)

Init ==
    /\ store = StoreInit0
    /\ channel = ChannelInit0
    /\ watcher = WatcherInit0
    /\ terminal = TerminalInit0

SpecChannel == Init /\ [][ChannelNext]_vars

SpecWatcher == Init /\ [][WatcherNext]_vars

SpecTerminal == Init /\ [][TerminalNext]_vars

SpecStore == Init /\ [][StoreNext]_vars

\* the reconnect timeout of the terminal store, once pending, does fire
SpecTerminalFair ==
    SpecTerminal /\ WF_vars(\E id \in 1..MaxSockets + 2 : TermReconnectTick(id))

\* setTimeout callbacks that are pending do fire
SpecChannelFair ==
    SpecChannel /\ WF_vars(\E i \in 1..MaxSockets + 1 : ReconnectTick(i))

(***************************************************************************)
(* C1: once doDisconnect() has returned and until the owner connects       *)
(* again, no step (timer callback, socket event, visibility change)        *)
(* changes a field of the channel, refreshes the last-ack time, delivers a *)
(* frame to handleMessage, creates a socket, or leaves a timer or listener *)
(* registered.                                                             *)
(***************************************************************************)
ChannelFields(w) ==
    <<w.connected, w.ws, w.pingTimer, w.reconnectTimer, w.reconnectAttempts,
      w.visibilityHandler, w.timeouts, w.intervals, w.listeners, w.handled>>

C1_NothingFiresAfterDisconnect ==
    [][(~channel.live /\ ~channel'.live) =>
          /\ ChannelFields(channel') = ChannelFields(channel)
          /\ channel'.pongAge \in {channel.pongAge, channel.pongAge + 1}
          /\ \A s \in Slots : channel.sockets[s].readyState = "FREE"
                                => channel'.sockets[s].readyState = "FREE"
          /\ channel.ws = 0 /\ channel.timeouts = <<>>
          /\ channel.intervals = 0 /\ channel.listeners = 0]_vars

\* disconnected while a socket torn down by forceReconnect, with its open,
\* message and error handlers still assigned, has events to come
C1_Witness ==
    /\ ~channel.live
    /\ \E s \in Slots : /\ channel.sockets[s].readyState = "CLOSING"
                         /\ channel.sockets[s].onerror
                         /\ channel.sockets[s].onmessage
    /\ channel.handled # <<>>

(***************************************************************************)
(* C2: while the owner has not disconnected, a close or error handled with *)
(* shouldReconnect() true leaves a reconnect timer pending, and a channel  *)
(* without a socket whose reconnect timer is pending gets a new connection *)
(* attempt (a socket) unless its owner disconnects it first.               *)
(***************************************************************************)
CloseHandled == channel.live /\ channel'.live /\ channel.ws # 0 /\ channel'.ws = 0

C2_NoFailureIsTerminal ==
    /\ [][(CloseHandled /\ channel.eligible) => Len(channel'.timeouts) >= 1]_vars
    /\ (channel.live /\ channel.ws = 0 /\ Len(channel.timeouts) >= 1)
          ~> (channel.ws # 0 \/ ~channel.live)

\* a failed connection attempt is waiting for its reconnect timer
C2_Witness ==
    /\ channel.live /\ channel.ws = 0
    /\ Len(channel.timeouts) = 1
    /\ channel.reconnectAttempts >= 2

(***************************************************************************)
(* C3: at most one reconnect timer is pending in every reachable state,    *)
(* and a run of the close handler that finds a timer pending leaves the    *)
(* pending timers and the attempt counter as they were.                    *)
(***************************************************************************)
C3_AtMostOneReconnectTimer ==
    /\ [](Len(channel.timeouts) <= 1)
    /\ [][(CloseHandled /\ channel.reconnectTimer) =>
             /\ channel'.timeouts = channel.timeouts
             /\ channel'.reconnectTimer
             /\ channel'.reconnectAttempts = channel.reconnectAttempts]_vars

\* a timer is pending although the counter is 0: the close handler ran
\* after forceReconnect() while the earlier timer was still pending
C3_Witness ==
    /\ channel.live /\ channel.ws = 0
    /\ Len(channel.timeouts) = 1 /\ channel.reconnectTimer
    /\ channel.reconnectAttempts = 0

(***************************************************************************)
(* C4: the delay of a reconnect scheduled at attempt counter n is          *)
(* min(maxReconnectDelay, baseReconnectDelay * 2^n + jitter) with          *)
(* 0 <= jitter < 1000; with zero jitter the delays for n = 0..5 are 1000,  *)
(* 2000, 4000, 8000, 16000, 30000; no delay exceeds maxReconnectDelay.     *)
(***************************************************************************)
DelayTable == <<1000, 2000, 4000, 8000, 16000, 30000>>

C4_BackoffDelay ==
    \A i \in 1..Len(channel.timeouts) :
        LET t == channel.timeouts[i]
            raw == 1000 * (2 ^ t.attempt) + t.jitter
        IN  /\ t.jitter >= 0 /\ t.jitter < 1000
            /\ t.delay <= 30000
            /\ t.delay = (IF raw > 30000 THEN 30000 ELSE raw)
            /\ (t.jitter = 0 /\ t.attempt <= 5) => t.delay = DelayTable[t.attempt + 1]

\* the sixth consecutive reconnect (n = 5), zero jitter, is pending
C4_Witness ==
    \E i \in 1..Len(channel.timeouts) :
        /\ channel.timeouts[i].attempt = 5
        /\ channel.timeouts[i].jitter = 0
        /\ channel.timeouts[i].delay = 30000

(***************************************************************************)
(* C5 as stated: every run of the close handler while reconnection is      *)
(* allowed increments the attempt counter by one (so that after k such     *)
(* runs since the last reset the counter is k).                            *)
(***************************************************************************)
C5_EveryCycleIncrements ==
    [][(CloseHandled /\ channel.eligible) =>
          channel'.reconnectAttempts = channel.reconnectAttempts + 1]_vars

(***************************************************************************)
(* C5 amended: a run of the close handler increments the attempt counter   *)
(* by one when reconnection is allowed and no reconnect timer is pending,  *)
(* and leaves it unchanged otherwise; a successful open resets it to 0.    *)
(***************************************************************************)
C5_CounterCountsScheduledRetries ==
    /\ [][CloseHandled =>
             channel'.reconnectAttempts = channel.reconnectAttempts +
                 (IF channel.eligible /\ ~channel.reconnectTimer THEN 1 ELSE 0)]_vars
    /\ [][(~channel.connected /\ channel'.connected) => channel'.reconnectAttempts = 0]_vars

\* the counter is 0 after a failed cycle: the close handler found the
\* timer of the second retry still pending after forceReconnect()
C5_Witness ==
    /\ channel.live /\ channel.ws = 0 /\ channel.reconnectAttempts = 0
    /\ Len(channel.timeouts) = 1 /\ channel.timeouts[1].attempt = 1

(***************************************************************************)
(* C6: a poll cycle that finds the directory (readability, names and       *)
(* modification times) exactly as the previous cycle or baseline left it   *)
(* invokes no subscriber callback.                                         *)
(***************************************************************************)
C6_UnchangedCycleIsSilent ==
    (watcher.cycle.ran /\ watcher.cycle.quiet) =>
        \A cb \in Callbacks : watcher.cycle.calls[cb] = 0

\* a silent cycle over two existing records with two subscribers
C6_Witness ==
    /\ watcher.cycle.ran /\ watcher.cycle.quiet
    /\ Len(watcher.subscribers) = 2
    /\ Cardinality(DOMAIN watcher.lastState) = 2

(***************************************************************************)
(* C7: in a poll cycle that detects a change, every subscribed callback is *)
(* invoked exactly once (and no other callback is invoked), however many   *)
(* records were added, modified or removed (cycles in which a callback     *)
(* unsubscribes a callback are the subject of C37).                        *)
(***************************************************************************)
Subscribed(w) == {w.subscribers[i] : i \in 1..Len(w.subscribers)}

C7_OncePerCycle ==
    (watcher.cycle.ran /\ watcher.cycle.changed /\ watcher.cycle.left = {}) =>
        \A cb \in Callbacks :
            watcher.cycle.calls[cb] = (IF cb \in Subscribed(watcher) THEN 1 ELSE 0)

\* a cycle that saw two changed records, with two subscribers
C7_Witness ==
    /\ watcher.cycle.ran /\ watcher.cycle.changes >= 2
    /\ watcher.cycle.left = {}
    /\ Len(watcher.subscribers) = 2
    /\ \A cb \in Callbacks : watcher.cycle.calls[cb] = 1

(***************************************************************************)
(* C8: when a subscribed callback raises, every other subscriber is still  *)
(* invoked in a cycle that detected a change, the error is logged, and the *)
(* poll loop is still running after the cycle.                             *)
(***************************************************************************)
C8_SubscriberFailuresIsolated ==
    (watcher.cycle.ran /\ watcher.cycle.changed /\ watcher.cycle.left = {}
        /\ \E cb \in Subscribed(watcher) : Throws(cb)) =>
        /\ \A cb \in Subscribed(watcher) : ~Throws(cb) => watcher.cycle.calls[cb] = 1
        /\ watcher.cycle.errors = Cardinality({cb \in Subscribed(watcher) : Throws(cb)})
        /\ watcher.pollTimer /\ watcher.intervals = 1

\* the raising callback is notified first, the other one after it
C8_Witness ==
    /\ watcher.cycle.ran /\ watcher.cycle.changed
    /\ watcher.cycle.left = {}
    /\ watcher.subscribers = <<"bad", "cb">>
    /\ watcher.cycle.calls["cb"] = 1 /\ watcher.cycle.errors = 1

(***************************************************************************)
(* C9: the poll loop runs, exactly once, exactly when at least one         *)
(* subscription is outstanding (an unsubscribe function returned by        *)
(* subscribe() and not yet invoked).                                       *)
(***************************************************************************)
RECURSIVE SumOver(_, _)
SumOver(f, S) ==
    IF S = {} THEN 0
    ELSE LET x == CHOOSE y \in S : TRUE IN f[x] + SumOver(f, S \ {x})

Outstanding(w) == SumOver(w.outstanding, Callbacks)

C9_LoopRunsIffSubscribed ==
    /\ watcher.pollTimer <=> Outstanding(watcher) > 0
    /\ watcher.intervals = (IF Outstanding(watcher) > 0 THEN 1 ELSE 0)

(***************************************************************************)
(* C10: connect(B) on a store bound to another target empties the output   *)
(* buffer and clears connected in the same call; while bound to B the      *)
(* buffer only ever holds text of a frame of B's stream, and connected is  *)
(* only set with B's socket held and open: nothing of the old connection   *)
(* sets the buffer or the flag.                                            *)
(***************************************************************************)
C10_TargetSwitchIsolation ==
    /\ [][(terminal'.target # terminal.target /\ terminal'.target # NoTarget) =>
             (terminal'.output = NoOutput /\ ~terminal'.connected)]_vars
    /\ []((terminal.target # NoTarget /\ terminal.output # NoOutput)
             => terminal.output[1] = terminal.target)
    /\ [](terminal.connected =>
             /\ terminal.ws # 0
             /\ terminal.sockets[terminal.ws].target = terminal.target
             /\ terminal.sockets[terminal.ws].readyState = "OPEN")

\* bound to B with an empty buffer while the socket of A, which delivered
\* output, has not finished closing
C10_Witness ==
    /\ terminal.target = "B" /\ terminal.output = NoOutput
    /\ \E s \in Slots : /\ terminal.sockets[s].target = "A"
                         /\ terminal.sockets[s].delivered
                         /\ terminal.sockets[s].readyState = "CLOSING"

(***************************************************************************)
(* C11: when the debounce timer fires after a burst of sendResize() calls  *)
(* made on the open socket, exactly one resize frame is written and it     *)
(* carries the size passed to the last call of the burst.                  *)
(***************************************************************************)
C11_ResizeCoalescing ==
    [][(ResizeTick /\ terminal.lastCall # NoSize) =>
          terminal'.wire = Append(terminal.wire, terminal.lastCall)]_vars

(***************************************************************************)
(* C12 as stated: a sendResize() with the size last transmitted schedules  *)
(* no frame; lastSentSize changes only when a resize frame is written; two *)
(* consecutive resize frames never carry the same size.                    *)
(***************************************************************************)
Suppressed ==
    \A size \in Sizes :
        (SendResize(size) /\ size = terminal.lastSentSize) =>
            /\ terminal'.wire = terminal.wire
            /\ terminal'.resizeTimer = terminal.resizeTimer
            /\ terminal'.lastSentSize = terminal.lastSentSize

C12_LastSentOnlyOnWrite ==
    /\ [][Suppressed]_vars
    /\ [][terminal'.lastSentSize # terminal.lastSentSize =>
             terminal'.wire # terminal.wire]_vars
    /\ [][(terminal'.wire # terminal.wire /\ terminal.wire # <<>>) =>
             terminal'.wire[Len(terminal'.wire)] # terminal.wire[Len(terminal.wire)]]_vars

(***************************************************************************)
(* C12 amended: a sendResize() with the recorded last-sent size schedules  *)
(* no frame; lastSentSize changes only when a resize frame is written to   *)
(* the open socket or when disconnect() clears it; every frame written     *)
(* differs from the recorded last-sent size, which is the size of the last *)
(* frame written whenever it is set.                                       *)
(***************************************************************************)
C12_NoRepeatedSizeSinceDisconnect ==
    /\ [][Suppressed]_vars
    /\ [][terminal'.lastSentSize # terminal.lastSentSize =>
             \/ terminal'.wire = Append(terminal.wire, terminal'.lastSentSize)
             \/ terminal'.lastSentSize = NoSize /\ terminal'.target = NoTarget]_vars
    /\ [][terminal'.wire # terminal.wire =>
             \E size \in Sizes :
                 /\ terminal'.wire = Append(terminal.wire, size)
                 /\ size # terminal.lastSentSize
                 /\ terminal'.lastSentSize = size
                 /\ TSocketOpen(terminal)]_vars
    /\ [](terminal.lastSentSize # NoSize =>
             /\ terminal.wire # <<>>
             /\ terminal.wire[Len(terminal.wire)] = terminal.lastSentSize)

\* two frames of different sizes were written, and a later sendResize() with
\* the size of the second was suppressed
C12_Witness ==
    /\ Len(terminal.wire) = 2 /\ terminal.wire[1] # terminal.wire[2]
    /\ terminal.lastSentSize = terminal.wire[2]
    /\ terminal.lastCall = terminal.lastSentSize
    /\ terminal.resizeTimer = <<>>

(***************************************************************************)
(* C13: a ping tick on an open socket whose last ack (or open) is older    *)
(* than pingInterval + pongTimeout closes the socket and sends no probe,   *)
(* otherwise it sends a probe; the socket closed for staleness keeps the   *)
(* close handler, whose run stops the keep-alive and schedules the         *)
(* reconnect as for any other close.                                       *)
(***************************************************************************)
SocketIsOpen(w) == w.ws # 0 /\ w.sockets[w.ws].readyState = "OPEN"

C13_KeepAlive ==
    /\ [][(PingTick /\ SocketIsOpen(channel)) =>
             LET s == channel.ws
             IN  IF channel.pongAge * ClockStep > pingInterval + pongTimeout
                 THEN /\ channel' = [channel EXCEPT !.sockets[s].readyState = "CLOSING"]
                      /\ channel.sockets[s].onclose
                 ELSE channel' = [channel EXCEPT !.sockets[s].pinged = TRUE]]_vars
    /\ [][(CloseHandled /\ channel.sockets[channel.ws].readyState = "CLOSING") =>
             /\ ~channel'.connected /\ ~channel'.pingTimer /\ channel'.intervals = 0
             /\ channel.eligible =>
                    /\ channel'.reconnectTimer /\ Len(channel'.timeouts) = 1
                    /\ channel.reconnectTimer \/
                          channel'.reconnectAttempts = channel.reconnectAttempts + 1]_vars

\* the current socket was closed by the keep-alive and awaits its close event
C13_Witness ==
    /\ channel.ws # 0 /\ channel.sockets[channel.ws].readyState = "CLOSING"
    /\ channel.sockets[channel.ws].established
    /\ channel.pongAge * ClockStep > pingInterval + pongTimeout
    /\ channel.connected /\ channel.pingTimer
    /\ ~channel.sockets[channel.ws].pinged
    /\ \A s \in Slots : s = channel.ws \/ channel.sockets[s].readyState = "FREE"

(***************************************************************************)
(* C14: a "pong" frame is never passed to handleMessage and only resets    *)
(* the age of the last ack; every other frame received on the current      *)
(* socket is appended once to the frames handled, so that they are handled *)
(* in the order received.                                                  *)
(***************************************************************************)
C14_FramesInOrder ==
    /\ [](\A i \in 1..Len(channel.handled) : channel.handled[i] # "pong")
    /\ [][\A s \in Slots, d \in Frames :
             (SocketMessage(s, d) /\ s = channel.ws) =>
                 IF d = "pong"
                 THEN /\ channel'.handled = channel.handled
                      /\ channel'.pongAge = 0
                 ELSE /\ channel'.handled = Append(channel.handled, d)
                      /\ channel'.pongAge = channel.pongAge]_vars

\* two different frames were handled, and the last ack is fresh
C14_Witness ==
    /\ Len(channel.handled) = 2 /\ channel.handled[1] # channel.handled[2]
    /\ SocketIsOpen(channel) /\ channel.pongAge = 0
    /\ ~channel.sockets[channel.ws].pinged

(***************************************************************************)
(* C15: forceReconnect(), from any state, leaves the attempt counter 0,    *)
(* connected false, the keep-alive stopped and a newly created socket as   *)
(* the current one; the socket it replaces is closing with its close       *)
(* handler removed, the call itself schedules no reconnect, and the close  *)
(* event of a replaced socket schedules none either.                       *)
(***************************************************************************)
InUse(w) == {s \in Slots : w.sockets[s].readyState # "FREE"}

C15_ForceReconnect ==
    /\ [][ForceReconnect =>
             /\ channel'.reconnectAttempts = 0
             /\ ~channel'.connected
             /\ ~channel'.pingTimer /\ channel'.intervals = 0
             /\ channel'.ws # 0 /\ channel'.ws \notin InUse(channel)
             /\ channel'.sockets[channel'.ws] = NewSocket
             /\ InUse(channel') = InUse(channel) \cup {channel'.ws}
             /\ channel'.timeouts = channel.timeouts
             /\ channel'.reconnectTimer = channel.reconnectTimer
             /\ channel.ws # 0 =>
                    /\ ~channel'.sockets[channel.ws].onclose
                    /\ channel'.sockets[channel.ws].readyState = "CLOSING"]_vars
    /\ [][\A s \in Slots, j \in Jitters :
             ((SocketClosed(s, j) \/ SocketFailed(s, j)) /\ s # channel.ws) =>
                 /\ channel'.timeouts = channel.timeouts
                 /\ channel'.reconnectTimer = channel.reconnectTimer
                 /\ channel'.reconnectAttempts = channel.reconnectAttempts]_vars

\* a socket replaced while it was open is closing without its close handler,
\* the new socket is connecting, and the reconnect timer that was pending
\* before the call still is
C15_Witness ==
    /\ channel.ws # 0 /\ channel.sockets[channel.ws].readyState = "CONNECTING"
    /\ channel.reconnectAttempts = 0 /\ ~channel.connected /\ ~channel.pingTimer
    /\ channel.reconnectTimer /\ Len(channel.timeouts) = 1
    /\ \E s \in Slots : /\ s # channel.ws
                         /\ channel.sockets[s].readyState = "CLOSING"
                         /\ channel.sockets[s].established
                         /\ ~channel.sockets[s].onclose

(***************************************************************************)
(* C16 as stated: whenever the page becomes visible while the channel's    *)
(* visibility listener is registered (it has connected and has not been    *)
(* disconnected), the channel forces a reconnect if its socket is not      *)
(* open and sends a probe if it is.                                        *)
(***************************************************************************)
Forced(w, w2) ==
    /\ w2.ws # 0 /\ w2.ws \notin InUse(w)
    /\ w2.sockets[w2.ws] = NewSocket
    /\ w2.reconnectAttempts = 0
    /\ ~w2.connected /\ ~w2.pingTimer

Probed(w, w2) ==
    w2 = [w EXCEPT !.sockets[w.ws].pinged = TRUE]

\* the listener is registered (and a WebSocket object can be allocated
\* where the listener needs one)
Listening(w) == w.listeners > 0 /\ (SocketIsOpen(w) \/ HasFreeSlot(w))

C16_ForegroundAlwaysActs ==
    Listening(channel) =>
        LET w2 == visibilityHandler(channel, "visible")
        IN  IF SocketIsOpen(channel) THEN Probed(channel, w2) ELSE Forced(channel, w2)

(***************************************************************************)
(* C16 amended: the listener is registered by the first open and removed   *)
(* only by doDisconnect(); when the page becomes visible while it is       *)
(* registered and shouldReconnect() is true, the channel forces a          *)
(* reconnect if its socket is not open and sends a probe if it is; when    *)
(* shouldReconnect() is false the event changes nothing.                   *)
(***************************************************************************)
C16_ForegroundActsIfEligible ==
    /\ [](Listening(channel) =>
             LET w2 == visibilityHandler(channel, "visible")
             IN  IF ~channel.eligible THEN w2 = channel
                 ELSE IF SocketIsOpen(channel) THEN Probed(channel, w2)
                 ELSE Forced(channel, w2))
    /\ [][(~channel.connected /\ channel'.connected) =>
             (channel'.visibilityHandler /\ channel'.listeners = 1)]_vars
    /\ [][(channel.visibilityHandler /\ channel'.live) =>
             (channel'.visibilityHandler /\ channel'.listeners = 1)]_vars
    /\ [](channel.listeners = IF channel.visibilityHandler THEN 1 ELSE 0)

\* the listener is registered, the socket that had opened is being replaced
\* and still has its open handler, the replacement is connecting
C16_Witness ==
    /\ channel.visibilityHandler /\ channel.live /\ channel.eligible
    /\ channel.ws # 0 /\ channel.sockets[channel.ws].readyState = "CONNECTING"
    /\ channel.reconnectAttempts = 0
    /\ \E s \in Slots : /\ s # channel.ws
                         /\ channel.sockets[s].readyState = "CLOSING"
                         /\ channel.sockets[s].onopen
                         /\ ~channel.sockets[s].onclose

(***************************************************************************)
(* C17: doDisconnect(), from any reachable state, leaves no socket handle, *)
(* no pending reconnect timer, no keep-alive timer, no visibility          *)
(* listener, connected false and the attempt counter 0, with the socket it *)
(* held detached and closing; a second doDisconnect() changes nothing.     *)
(***************************************************************************)
Torn(w) ==
    /\ w.ws = 0
    /\ ~w.reconnectTimer /\ w.timeouts = <<>>
    /\ ~w.pingTimer /\ w.intervals = 0
    /\ ~w.visibilityHandler /\ w.listeners = 0
    /\ ~w.connected /\ w.reconnectAttempts = 0

C17_DisconnectIdempotent ==
    LET w2 == doDisconnect(channel)
    IN  /\ Torn(w2)
        /\ channel.ws # 0 =>
               /\ w2.sockets[channel.ws].readyState \in {"CLOSING", "CLOSED"}
               /\ Detached(w2, channel.ws)
        /\ \A s \in Slots : s # channel.ws => w2.sockets[s] = channel.sockets[s]
        /\ doDisconnect(w2) = w2
        /\ ~channel.live => Torn(channel)

\* disconnected while a socket replaced by forceReconnect() is still closing
C17_Witness ==
    /\ ~channel.live /\ Torn(channel)
    /\ \E s \in Slots : /\ channel.sockets[s].readyState = "CLOSING"
                         /\ channel.sockets[s].onerror
    /\ channel.pongAge > 0

(***************************************************************************)
(* C18: doConnect() while a socket is held changes nothing; otherwise it   *)
(* creates exactly one socket and holds it. Only the socket held has a     *)
(* close handler: the channel never has two current sockets.               *)
(***************************************************************************)
C18_ConnectGuard ==
    /\ channel.ws # 0 => doConnect(channel) = channel
    /\ (channel.ws = 0 /\ HasFreeSlot(channel)) =>
           LET w2 == doConnect(channel)
           IN  /\ w2.ws # 0 /\ w2.ws \notin InUse(channel)
               /\ w2 = [channel EXCEPT !.ws = w2.ws, !.sockets[w2.ws] = NewSocket]
    /\ \A s \in Slots : channel.sockets[s].onclose => s = channel.ws
    /\ channel.ws # 0 => channel.sockets[channel.ws].onclose

\* a socket is held while a reconnect timer, whose callback will call
\* doConnect(), is still pending
C18_Witness ==
    /\ channel.ws # 0 /\ channel.sockets[channel.ws].readyState = "CONNECTING"
    /\ Len(channel.timeouts) = 1 /\ channel.reconnectAttempts >= 1

(***************************************************************************)
(* C19: when the socket of the terminal store closes while a target is set *)
(* (the close handler runs), exactly one reconnect timer is pending, with  *)
(* a delay of 2000 ms whatever the number of attempts that failed before;  *)
(* when it fires, one socket to the same target is created; and a pending  *)
(* timer does lead to a socket unless disconnect() intervenes.             *)
(***************************************************************************)
TermCloseHandled ==
    /\ terminal.ws # 0 /\ terminal'.ws = 0
    /\ terminal.target # NoTarget /\ terminal'.target = terminal.target

C19_FixedDelayReconnect ==
    /\ [][TermCloseHandled =>
             /\ terminal'.timeouts = {[id |-> terminal'.reconnectTimer, delay |-> 2000]}
             /\ terminal'.reconnectTimer # 0]_vars
    /\ [][(\E id \in 1..MaxSockets + 2 : TermReconnectTick(id)) =>
             /\ terminal'.ws # 0 /\ terminal'.timeouts = {}
             /\ terminal'.sockets[terminal'.ws] = TNewSocket(terminal.target)
             /\ terminal'.target = terminal.target
             /\ \A s \in Slots : s # terminal'.ws =>
                    terminal'.sockets[s] = terminal.sockets[s]]_vars
    /\ [](Cardinality(terminal.timeouts) <= 1)
    /\ (terminal.ws = 0 /\ terminal.timeouts # {})
          ~> (terminal.ws # 0 \/ terminal.target = NoTarget)

\* the socket created by the reconnect timer has failed in its turn and the
\* next reconnect is pending
C19_Witness ==
    /\ terminal.retry /\ terminal.ws = 0 /\ terminal.target # NoTarget
    /\ Cardinality(terminal.timeouts) = 1
    /\ \A x \in terminal.timeouts : x.delay = 2000

(***************************************************************************)
(* C20: disconnect() leaves no target, no socket handle, no pending        *)
(* reconnect or resize timer and connected false, with the socket it held  *)
(* detached; while no target is set, no step creates a socket, writes a    *)
(* resize frame, schedules a timer or changes output or connected; a       *)
(* second disconnect() changes nothing.                                    *)
(***************************************************************************)
TermTorn(t) ==
    /\ t.target = NoTarget /\ t.ws = 0 /\ ~t.connected
    /\ t.reconnectTimer = 0 /\ t.timeouts = {}
    /\ t.resizeTimer = <<>> /\ t.lastSentSize = NoSize

TermDetached(t, s) ==
    /\ t.ws # s
    /\ ~t.sockets[s].onopen /\ ~t.sockets[s].onmessage
    /\ ~t.sockets[s].onclose /\ ~t.sockets[s].onerror

C20_DisconnectIsFinal ==
    /\ [](LET t2 == disconnect(terminal)
           IN  /\ TermTorn(t2)
               /\ t2.output = terminal.output /\ t2.wire = terminal.wire
               /\ terminal.ws # 0 => TermDetached(t2, terminal.ws)
               /\ disconnect(t2) = t2)
    /\ [](terminal.target = NoTarget => TermTorn(terminal))
    /\ [][(terminal.target = NoTarget /\ terminal'.target = NoTarget) =>
             /\ terminal'.output = terminal.output
             /\ terminal'.wire = terminal.wire
             /\ terminal'.connected = terminal.connected
             /\ \A s \in Slots : terminal'.sockets[s].readyState # "CONNECTING"]_vars

\* disconnected with output in the buffer and a frame written, while the
\* socket that was held is still closing
C20_Witness ==
    /\ TermTorn(terminal)
    /\ terminal.output # NoOutput /\ terminal.wire # <<>>
    /\ \E s \in Slots : /\ terminal.sockets[s].readyState = "CLOSING"
                         /\ terminal.sockets[s].established

(***************************************************************************)
(* C21: a frame with an output field replaces the buffer by that value, a  *)
(* frame without one leaves it unchanged, and the buffer always equals the *)
(* output of the last output-bearing frame received on the socket held     *)
(* since the target was set, or is empty if there was none.                *)
(***************************************************************************)
C21_BufferIsLatestFrame ==
    /\ terminal.output = terminal.latest
    /\ \A t \in Targets : \A f \in FramesOf(t) :
           termOnmessage(terminal, f) =
               IF "output" \in DOMAIN f
               THEN [terminal EXCEPT !.output = f.output]
               ELSE terminal

\* an output frame received on the socket held is in the buffer
C21_Witness ==
    /\ terminal.ws # 0 /\ terminal.sockets[terminal.ws].delivered
    /\ terminal.output = <<terminal.target, "Y">>
    /\ terminal.connected

(***************************************************************************)
(* C22: connect(target) while a socket is held for that target returns the *)
(* store unchanged: no socket is created, and socket, buffer, connected    *)
(* flag and timers stay as they are.                                       *)
(***************************************************************************)
C22_SameTargetNoOp ==
    (terminal.ws # 0 /\ terminal.target # NoTarget) =>
        connect(terminal, terminal.target) = terminal

\* a socket is held and open for the target, with output shown and a
\* debounced resize pending
C22_Witness ==
    /\ terminal.ws # 0 /\ terminal.connected
    /\ terminal.output # NoOutput
    /\ terminal.resizeTimer # <<>>
    /\ terminal.sockets[terminal.ws].target = terminal.target

(***************************************************************************)
(* C26: the buffer changes only when an output frame arrives on the socket *)
(* held or when connect() sets a target other than the one set (then it is *)
(* emptied); a socket close, a failed reconnect, disconnect() and the      *)
(* automatic reconnect leave it as it is.                                  *)
(***************************************************************************)
C26_LossKeepsOutput ==
    /\ [][terminal'.output # terminal.output =>
             \/ \E s \in Slots, t \in Targets : \E f \in FramesOf(t) :
                    /\ TermSocketMessage(s, f) /\ s = terminal.ws
                    /\ "output" \in DOMAIN f /\ terminal'.output = f.output
             \/ /\ terminal'.target \notin {terminal.target, NoTarget}
                /\ terminal'.output = NoOutput]_vars
    /\ [](disconnect(terminal).output = terminal.output)
    /\ [](terminal.ws # 0 => termOnclose(terminal).output = terminal.output)
    /\ [](terminal.target # NoTarget /\ terminal.ws = 0 /\ THasFreeSlot(terminal) =>
             termReconnectTick(terminal).output = terminal.output)

\* a reconnect attempt has failed and output is still shown
C26_Witness ==
    /\ terminal.retry /\ terminal.ws = 0 /\ ~terminal.connected
    /\ terminal.timeouts # {}
    /\ terminal.output # NoOutput


(***************************************************************************)
(* C23, C24: project tree and pause                                        *)
(***************************************************************************)
ProjectSet(st) ==
    {st.sessions[i] : i \in {j \in 1..Len(st.sessions) : st.sessions[j] # NoCwd}}
        \cup st.savedProjects

SeqRange(seq) == {seq[i] : i \in 1..Len(seq)}

\* the project with the longest cwd among those whose cwd followed by "/" is
\* a prefix of p
Ancestors(P, p) == {q \in P : StartsWith(p, q \o Slash)}

ExpectedParent(P, p) ==
    IF Ancestors(P, p) = {} THEN NoParent
    ELSE CHOOSE q \in Ancestors(P, p) : \A r \in Ancestors(P, p) : Len(r) <= Len(q)

\* the nodes that hold p as a child
HoldersOf(tree, p) == {q \in DOMAIN tree.nodeMap : p \in SeqRange(tree.nodeMap[q].children)}

\* the shape of a tree: roots, and children and depth of every node
Shape(tree) ==
    [roots |-> tree.roots,
     nodes |-> [c \in DOMAIN tree.nodeMap |->
                  [children |-> tree.nodeMap[c].children, depth |-> tree.nodeMap[c].depth]]]

Reorderings(seq) ==
    {[i \in 1..Len(seq) |-> seq[f[i]]] :
        f \in {g \in [1..Len(seq) -> 1..Len(seq)] : \A i, j \in 1..Len(seq) : g[i] = g[j] => i = j}}

\* C23: every project is a node of the tree; its parent is the project with
\* the longest cwd among those whose cwd followed by "/" is a prefix of its
\* cwd, and without such a project it is a root; listing the sessions in
\* another order gives the same tree.
C23_ParentIsLongestPrefix ==
    LET tree == projectTree(store)
        P == ProjectSet(store)
    IN  /\ DOMAIN tree.nodeMap = P
        /\ \A p \in P :
              LET parent == ExpectedParent(P, p)
              IN  IF parent = NoParent
                  THEN p \in SeqRange(tree.roots) /\ HoldersOf(tree, p) = {}
                  ELSE p \notin SeqRange(tree.roots) /\ HoldersOf(tree, p) = {parent}
        /\ \A other \in Reorderings(store.sessions) :
              Shape(projectTree([store EXCEPT !.sessions = other])) = Shape(tree)

C23_Witness ==
    LET tree == projectTree(store)
        a == <<"/", "a">>
        ab == <<"/", "a", "/", "b">>
        abc == <<"/", "a", "/", "b", "/", "c">>
        ad == <<"/", "a", "/", "d">>
    IN  /\ ProjectSet(store) = {a, ab, abc, ad}
        /\ Len(store.sessions) = 2
        /\ tree.roots = <<a>>
        /\ tree.nodeMap[a].children = <<ab, ad>>
        /\ tree.nodeMap[ab].children = <<abc>>
        /\ tree.nodeMap[abc].depth = 2

\* C24: while paused a pushed snapshot leaves the session list as it is and
\* nothing is queued: unpausing leaves the list as it is too, and the next
\* snapshot pushed while unpaused replaces the list wholesale.
C24_PausedSnapshotsDiscarded ==
    /\ [][store.paused => store'.sessions = store.sessions]_vars
    /\ [][store'.paused # store.paused => store'.sessions = store.sessions]_vars
    /\ [](\A snapshot \in Snapshots :
            handleSnapshot(store, snapshot).sessions =
                IF store.paused THEN store.sessions ELSE snapshot)
    /\ [](togglePause(store).sessions = store.sessions)

C24_Witness ==
    /\ ~store.paused
    /\ store.missed
    /\ store.sessions # <<>>

(***************************************************************************)
(* C25, C28, C29: what a poll cycle observes and signals                   *)
(***************************************************************************)
\* the records a poll can read in directory dir
Readable(dir) ==
    IF dir.readable THEN {f \in Listing(dir) : EndsWith(f, DotJson)} ELSE {}

\* the sets of files that may vanish during a poll of the current directory
Vanishings == {v \in CanVanish(watcher) : v = {} \/ watcher.dir.readable}

\* every subscriber was invoked once in the cycle recorded in w
AllNotified(w) ==
    /\ w.cycle.changed
    /\ \A i \in 1..Len(w.subscribers) : w.cycle.calls[w.subscribers[i]] = 1

\* C25: a poll cycle raises nothing, whatever the directory is like and
\* whichever listed files disappear before they are examined: it completes,
\* the snapshot holds exactly the records that could be read, and the poll
\* loop is still running (unless a callback of the cycle released the last
\* subscription, which stops the loop).
C25_PollNeverRaises ==
    /\ watcher.cycle.ran => ~watcher.cycle.raised
    /\ (watcher.cycle.ran /\ watcher.cycle.left = {}) =>
          /\ watcher.lastState = [f \in Readable(watcher.seen) |-> watcher.seen.files[f]]
          /\ watcher.intervals > 0
    /\ watcher.intervals > 0 =>
          \A vanished \in Vanishings :
              LET w == pollTick(watcher, vanished)
              IN  /\ ~w.cycle.raised
                  /\ DOMAIN w.lastState = Statted(watcher.dir, vanished) \cap Readable(watcher.dir)
                  /\ w.intervals = watcher.intervals

C25_Witness ==
    /\ watcher.cycle.ran
    /\ ~watcher.seen.readable
    /\ Listing(watcher.dir) # {}
    /\ watcher.lastState = <<>>
    /\ watcher.intervals > 0

\* C28: a poll cycle that does not observe a record of the previous snapshot
\* (the record is gone, or the directory cannot be read) reports a change
\* and invokes every subscriber once.
C28_AbsentMeansRemoved ==
    watcher.intervals > 0 =>
        \A vanished \in Vanishings :
            LET observed == Statted(watcher.dir, vanished) \cap Readable(watcher.dir)
            IN  (\E f \in DOMAIN watcher.lastState : f \notin observed)
                    => AllNotified(pollTick(watcher, vanished))

\* the same for the cycles in which the directory can be read
C28_AbsentMeansRemovedIfReadable ==
    (watcher.intervals > 0 /\ watcher.dir.readable) =>
        \A vanished \in Vanishings :
            (\E f \in DOMAIN watcher.lastState : f \notin Statted(watcher.dir, vanished))
                => AllNotified(pollTick(watcher, vanished))

\* C29: a poll cycle that observes a record the previous snapshot did not
\* hold, or holds with another mtime (greater or smaller), reports a change
\* and invokes every subscriber once in that cycle.
C29_AddedOrModifiedNotifies ==
    watcher.intervals > 0 =>
        \A vanished \in Vanishings :
            LET observed == Statted(watcher.dir, vanished) \cap Readable(watcher.dir)
            IN  (\E f \in observed :
                     \/ f \notin DOMAIN watcher.lastState
                     \/ watcher.lastState[f] # watcher.dir.files[f])
                    => AllNotified(pollTick(watcher, vanished))

C29_Witness ==
    /\ watcher.cycle.ran
    /\ watcher.cycle.changes = 2
    /\ Cardinality(DOMAIN watcher.lastState) = 2
    /\ Len(watcher.subscribers) = 2
    /\ AllNotified(watcher)

(***************************************************************************)
(* C27, C30: error handling and the reconnect-eligibility predicate        *)
(***************************************************************************)
\* the channel after the close event of socket s (the step of SocketClosed)
AfterClose(w, s, jitter) ==
    LET w1 == [w EXCEPT !.sockets[s].readyState = "CLOSED"]
        w2 == IF w1.sockets[s].onclose THEN onclose(w1, jitter) ELSE w1
    IN  Release(w2, s)

\* the channel after the error and close events of socket s (the step of
\* SocketFailed)
AfterError(w, s, jitter) ==
    LET w1 == [w EXCEPT !.sockets[s].readyState = "CLOSED"]
        w2 == IF w1.sockets[s].onerror THEN onerror(w1) ELSE w1
        w3 == IF w2.sockets[s].onclose THEN onclose(w2, jitter) ELSE w2
    IN  Release(w3, s)

\* socket s can close cleanly and can fail
CanCloseOrFail(w, s) ==
    w.sockets[s].readyState \in {"OPEN", "CLOSING"} /\ w.sockets[s].established

\* C27: an error of a socket leaves the channel exactly as a clean close of
\* that socket does; for the socket the channel holds that is: connected
\* false, no socket handle, keep-alive timer stopped, and a reconnect
\* scheduled by scheduleReconnect if the predicate allows.
C27_ErrorAsCleanClose ==
    \A s \in Slots : \A jitter \in Jitters :
        CanCloseOrFail(channel, s) =>
            /\ AfterError(channel, s, jitter) = AfterClose(channel, s, jitter)
            /\ s = channel.ws =>
                  LET w == AfterError(channel, s, jitter)
                  IN  /\ ~w.connected /\ w.ws = 0
                      /\ ~w.pingTimer /\ w.intervals = 0
                      /\ w.timeouts = onclose(channel, jitter).timeouts

\* the same for the socket the channel holds only
C27_ErrorAsCleanCloseOfHeldSocket ==
    \A jitter \in Jitters :
        (channel.ws # 0 /\ CanCloseOrFail(channel, channel.ws)) =>
            LET w == AfterError(channel, channel.ws, jitter)
            IN  /\ w = AfterClose(channel, channel.ws, jitter)
                /\ ~w.connected /\ w.ws = 0
                /\ ~w.pingTimer /\ w.intervals = 0
                /\ w.timeouts = onclose(channel, jitter).timeouts

\* C30: a close handled while shouldReconnect() is false schedules no timer
\* and leaves the attempt counter alone, and no reconnect timer is pending
\* after it (a pending timer gives the channel a socket without a connect
\* call); a close handled while it is true schedules a reconnect timer.
C30_PredicateGatesRetry ==
    /\ [][(CloseHandled /\ ~channel.eligible) =>
             /\ channel'.timeouts = channel.timeouts
             /\ channel'.reconnectAttempts = channel.reconnectAttempts
             /\ channel'.timeouts = <<>>]_vars
    /\ [][(CloseHandled /\ channel.eligible) =>
             Len(channel'.timeouts) = Len(channel.timeouts) + 1]_vars

C30_NoTimerScheduledIfIneligible ==
    [][(CloseHandled /\ ~channel.eligible) =>
          /\ channel'.timeouts = channel.timeouts
          /\ channel'.reconnectAttempts = channel.reconnectAttempts]_vars

C30_IdleAfterIneligibleClose ==
    [][(CloseHandled /\ ~channel.eligible) => channel'.timeouts = <<>>]_vars

C30_EveryEligibleCloseSchedules ==
    [][(CloseHandled /\ channel.eligible) =>
          Len(channel'.timeouts) = Len(channel.timeouts) + 1]_vars

(***************************************************************************)
(* C31, C38: shape of the project tree and of the flattened tree           *)
(***************************************************************************)
\* C31: a project is the child of another only if its cwd is the cwd of the
\* other, then "/", then a suffix that is not empty.
C31_ChildHasNonEmptySuffix ==
    LET tree == projectTree(store)
    IN  \A q \in DOMAIN tree.nodeMap : \A p \in SeqRange(tree.nodeMap[q].children) :
            /\ StartsWith(p, q \o Slash)
            /\ Len(p) > Len(q) + 1

\* the same for session lists and saved projects without a trailing "/"
C31_ChildHasNonEmptySuffixIfNoTrailingSlash ==
    LET tree == projectTree(store)
    IN  (\A p \in ProjectSet(store) : p[Len(p)] # "/") =>
            \A q \in DOMAIN tree.nodeMap : \A p \in SeqRange(tree.nodeMap[q].children) :
                /\ StartsWith(p, q \o Slash)
                /\ Len(p) > Len(q) + 1

\* the number of ancestors of project p in the tree
RECURSIVE AncestorCount(_, _)
AncestorCount(tree, p) ==
    IF HoldersOf(tree, p) = {} THEN 0
    ELSE 1 + AncestorCount(tree, CHOOSE q \in HoldersOf(tree, p) : TRUE)

\* the flattened tree holds every project once, parents before children,
\* with depth the number of ancestors
FlatIsTree(st) ==
    LET tree == projectTree(st)
        flat == flatProjects(st)
    IN  /\ {flat[k].cwd : k \in 1..Len(flat)} = ProjectSet(st)
        /\ Len(flat) = Cardinality(ProjectSet(st))
        /\ \A k, l \in 1..Len(flat) :
              flat[l].cwd \in SeqRange(flat[k].children) => k < l
        /\ \A k \in 1..Len(flat) : flat[k].depth = AncestorCount(tree, flat[k].cwd)

\* session i of the list is in the session list of the node of its cwd and
\* of no other node
SessionInItsNode(st, i) ==
    LET flat == flatProjects(st)
        holders == {k \in 1..Len(flat) : i \in SeqRange(flat[k].sessions)}
    IN  /\ Cardinality(holders) = 1
        /\ \A k \in holders : flat[k].cwd = st.sessions[i]

\* C38: the flattened tree holds every project exactly once, each parent
\* before its children, with depth the number of ancestors, and every
\* session of the list is in the session list of exactly one node, the node
\* of its cwd.
C38_FlatTreeComplete ==
    /\ FlatIsTree(store)
    /\ \A i \in 1..Len(store.sessions) : SessionInItsNode(store, i)

\* the same for the sessions that have a cwd
C38_FlatTreeCompleteForSessionsWithCwd ==
    /\ FlatIsTree(store)
    /\ \A i \in 1..Len(store.sessions) :
          store.sessions[i] # NoCwd => SessionInItsNode(store, i)

(***************************************************************************)
(* C32, C34: torn-down sockets and the channel invariant                   *)
(***************************************************************************)
\* the channel apart from the record of socket s
Except(w, s) == [w EXCEPT !.sockets[s] = FreeSocket]

\* socket s was replaced by forceReconnect() and has events to come
TornDown(w, s) ==
    /\ s # w.ws
    /\ w.sockets[s].readyState \in {"CONNECTING", "OPEN", "CLOSING"}

\* C32: the events of a socket that forceReconnect() replaced (its error
\* followed by its close, or its close alone) change nothing of the channel:
\* the replacement socket is not closed, no field changes, no message is
\* handled.
C32_TornDownSocketIsInert ==
    \A s \in Slots : \A jitter \in Jitters :
        TornDown(channel, s) =>
            /\ Except(AfterError(channel, s, jitter), s) = Except(channel, s)
            /\ Except(AfterClose(channel, s, jitter), s) = Except(channel, s)

\* the close event alone of such a socket changes nothing
C32_TornDownSocketCloseIsInert ==
    \A s \in Slots : \A jitter \in Jitters :
        TornDown(channel, s) =>
            Except(AfterClose(channel, s, jitter), s) = Except(channel, s)

\* C34: connected implies a socket handle, a running keep-alive timer and
\* no pending reconnect timer; the keep-alive timer runs only while a socket
\* handle is held, and there is at most one.
C34_ConnectedInvariant ==
    /\ channel.connected =>
          /\ channel.ws # 0
          /\ channel.pingTimer /\ channel.intervals = 1
          /\ ~channel.reconnectTimer /\ channel.timeouts = <<>>
    /\ channel.intervals <= 1
    /\ (channel.pingTimer \/ channel.intervals > 0) => channel.ws # 0

\* connected through a socket opened by connect() while a reconnect timer
\* was pending, after a forced reconnect whose old socket is still closing
C34_Witness ==
    /\ channel.connected
    /\ channel.sockets[channel.ws].readyState = "OPEN"
    /\ \E s \in Slots : TornDown(channel, s)
    /\ channel.handled # <<>>

(***************************************************************************)
(* C33, C35, C39: resize state across connections, the store invariant     *)
(***************************************************************************)
\* the store once the socket it holds has opened
OnceOpen(t) ==
    termOnopen([t EXCEPT !.sockets[t.ws].readyState = "OPEN",
                         !.sockets[t.ws].established = TRUE])

\* C33: when the store takes a new socket (target switch or reconnect), no
\* size sent on an earlier connection suppresses a resize on the new one:
\* once the new socket is open, sendResize of every size starts the timer
\* that transmits it.
C33_SuppressionScopedToConnection ==
    [][(terminal'.ws # terminal.ws /\ terminal'.ws # 0) =>
          \A size \in Sizes :
              sendResize(OnceOpen(terminal'), size).resizeTimer =
                  <<[size |-> size, delay |-> resizeDebounce]>>]_vars

\* the same for the sockets taken after disconnect()
C33_SuppressionResetByDisconnect ==
    [][(terminal'.ws # terminal.ws /\ terminal'.ws # 0 /\ terminal.target = NoTarget) =>
          \A size \in Sizes :
              sendResize(OnceOpen(terminal'), size).resizeTimer =
                  <<[size |-> size, delay |-> resizeDebounce]>>]_vars

\* sockets whose events reach the store
Attached(t) ==
    {s \in Slots : t.sockets[s].onopen \/ t.sockets[s].onmessage
                      \/ t.sockets[s].onclose \/ t.sockets[s].onerror}

\* C35: at most one socket, at most one pending reconnect timer, never
\* both; a socket or a pending reconnect timer implies a target; connected
\* implies a socket.
C35_StoreInvariant ==
    /\ Attached(terminal) \subseteq {terminal.ws} \ {0}
    /\ Cardinality(terminal.timeouts) <= 1
    /\ terminal.timeouts # {} => terminal.ws = 0
    /\ (terminal.ws # 0 \/ terminal.timeouts # {}) => terminal.target # NoTarget
    /\ terminal.connected => terminal.ws # 0

\* a reconnect timer is pending for a target while a replaced socket of the
\* other target is still closing
C35_Witness ==
    /\ terminal.timeouts # {}
    /\ terminal.ws = 0
    /\ terminal.target # NoTarget
    /\ \E s \in Slots : terminal.sockets[s].readyState = "CLOSING"

\* the pending debounce timer was started on a socket the store no longer
\* holds (lastCall is reset when the socket changes)
StaleResize(t) == t.resizeTimer # <<>> /\ t.lastCall = NoSize

\* C39: sendResize without an open socket changes nothing; a debounce timer
\* that fires when the socket of its call is no longer open writes no frame
\* and leaves the last-sent size alone, so the size is not transmitted on a
\* connection opened later.
C39_ResizeNeedsItsOpenSocket ==
    /\ ~TSocketOpen(terminal) =>
          \A size \in Sizes : sendResize(terminal, size) = terminal
    /\ StaleResize(terminal) =>
          LET t == resizeTick(terminal, terminal.resizeTimer[1].size)
          IN  /\ t.wire = terminal.wire
              /\ t.lastSentSize = terminal.lastSentSize
              /\ t.resizeTimer = <<>>

\* the same where no socket at all is open when the timer fires
C39_ResizeNeedsAnOpenSocket ==
    /\ ~TSocketOpen(terminal) =>
          \A size \in Sizes : sendResize(terminal, size) = terminal
    /\ (terminal.resizeTimer # <<>> /\ ~TSocketOpen(terminal)) =>
          LET t == resizeTick(terminal, terminal.resizeTimer[1].size)
          IN  /\ t.wire = terminal.wire
              /\ t.lastSentSize = terminal.lastSentSize
              /\ t.resizeTimer = <<>>

(***************************************************************************)
(* C36, C37: baseline at loop start, unsubscription                        *)
(***************************************************************************)
\* C36: whenever the poll loop starts (first subscription, or a later one
\* after the loop had stopped) the snapshot is the directory as it is then:
\* a poll right after the start reports no change and invokes no callback,
\* whatever was present before or changed while the loop was stopped.
C36_BaselineAtStart ==
    [][(watcher.intervals = 0 /\ watcher'.intervals > 0) =>
          /\ watcher'.lastState =
                 [f \in Readable(watcher'.seen) |-> watcher'.seen.files[f]]
          /\ ~pollTick(watcher', {}).cycle.changed
          /\ \A cb \in Callbacks : pollTick(watcher', {}).cycle.calls[cb] = 0]_vars

\* the loop runs again after it had been stopped, over two records
C36_Witness ==
    /\ watcher.pollTimer /\ ~watcher.cycle.ran
    /\ \E cb \in Callbacks : watcher.spent[cb]
    /\ Len(watcher.subscribers) = 1
    /\ watcher.dir = watcher.seen
    /\ Cardinality(DOMAIN watcher.lastState) = 2

\* callback a is before callback b in the subscriber set
Before(w, a, b) ==
    \E i, j \in 1..Len(w.subscribers) :
        i < j /\ w.subscribers[i] = a /\ w.subscribers[j] = b

\* C37: a callback whose unsubscribe function has been invoked is not
\* invoked by later polls, and not later in the same dispatch when the
\* function is invoked by a callback; the other callbacks stay subscribed,
\* the loop keeps running for them and they are still invoked once per
\* changed cycle.
C37_UnsubscribedNeverInvoked ==
    /\ ~watcher.cycle.late
    /\ \A cb \in Callbacks :
          LET w == unsubscribe(watcher, cb)
              others == Subscribed(watcher) \ {cb}
          IN  /\ ~IsSubscribed(w, cb)
              /\ Subscribed(w) = others
              /\ others # {} =>
                    /\ w.pollTimer = watcher.pollTimer
                    /\ w.intervals = watcher.intervals
                    /\ w.lastState = watcher.lastState
              /\ w.intervals > 0 =>
                    \A vanished \in Vanishings :
                        LET w2 == pollTick(w, vanished)
                        IN  /\ w2.cycle.calls[cb] = 0
                            /\ w2.cycle.changed =>
                                  \A other \in others : w2.cycle.calls[other] = 1
    /\ watcher.intervals > 0 =>
          \A act \in Acts \ {NoAct} :
              IsSubscribed(watcher, act.by) =>
                  LET w == pollTickWith(watcher, {}, act)
                  IN  /\ ~w.cycle.late
                      /\ \A cb \in Callbacks \ Subscribed(watcher) : w.cycle.calls[cb] = 0
                      /\ w.cycle.changed =>
                            \A cb \in Subscribed(watcher) :
                                w.cycle.calls[cb] =
                                    (IF cb = act.whom /\ Before(watcher, act.by, cb)
                                     THEN 0 ELSE 1)

\* a dispatch in which the first callback unsubscribed the second, which
\* was not invoked
C37_Witness ==
    /\ watcher.cycle.ran /\ watcher.cycle.changed
    /\ watcher.cycle.left # {}
    /\ \E cb \in watcher.cycle.left : watcher.cycle.calls[cb] = 0
    /\ Len(watcher.subscribers) = 1
    /\ watcher.cycle.calls[watcher.subscribers[1]] = 1
    /\ watcher.pollTimer
====
